---- MODULE Spec2Model ----
(***************************************************************************)
(* Mython interpreter (bogaev/cpp-mython): the runtime object model        *)
(* (runtime.cpp / runtime.h), the executable tree (statement.cpp /         *)
(* statement.h) and the lexer (lexer.cpp).                                 *)
(*                                                                         *)
(* These state machines share the module:                                  *)
(*   SpecClass  class descriptors being constructed (Class::Class)         *)
(*   SpecEval   a top-level program executing statement by statement       *)
(*   SpecValue  one expression evaluated after a setup program             *)
(*   SpecPrint  print statements executed after the setup program          *)
(*   SpecCall   dotted names, method calls and field assignments executed  *)
(*              after the setup program                                    *)
(*   SpecLex    Lexer::ParseTokens reading an input stream, one sub-parser *)
(*              call per step, then the calls of NextToken (SpecLexFair:   *)
(*              the same, run to its end)                                  *)
(***************************************************************************)
EXTENDS Integers, Sequences, FiniteSets, TLC

VARIABLES
    classes,    \* SpecClass: class name -> Class object (declared so far)
    closure,    \* SpecEval: the top-level Closure (name -> ObjectHolder)
    heap,       \* SpecEval: ClassInstance objects, keyed by the NewInstance node that owns them
    status,     \* SpecEval: "running" | "error" | "return_escaped" | "ub"
    pc,         \* SpecEval: number of top-level statements executed
    last,       \* SpecEval: what the last top-level statement did (result, message, event trace)
    created,    \* SpecEval: history of NewInstance evaluations over the whole run
    aliases,    \* SpecEval: history of top-level "b = a" assignments still in force
    output,     \* the text written to the output stream of the Context so far
    prog,       \* SpecPrint: history of the statements executed so far
    addr_base,  \* where this run's allocator placed the objects (differs from run to run)
    input,      \* SpecLex: the characters of the input stream
    stream,     \* SpecLex: the istream: read position and the eofbit / failbit state flags
    tokens,     \* SpecLex: Lexer::tokens_
    begin_spaces_count_,    \* SpecLex: Lexer::begin_spaces_count_
    lexPc,      \* SpecLex: where ParseTokens is: "loop", the name of a sub-parser, "done", "error"
    lexErr,     \* SpecLex: message of the exception that ended ParseTokens, "" if none
    tokens_iterator_,   \* SpecLex: Lexer::tokens_iterator_, as an index into tokens (0: not yet set)
    returned    \* SpecLex: the Token the last call of NextToken returned

evalVars == <<classes, closure, heap, status, pc, last, created, aliases, output, prog, addr_base>>

lexVars == <<input, stream, tokens, begin_spaces_count_, lexPc, lexErr, tokens_iterator_, returned>>

vars == <<classes, closure, heap, status, pc, last, created, aliases, output, prog, addr_base,
          input, stream, tokens, begin_spaces_count_, lexPc, lexErr, tokens_iterator_, returned>>

(***************************************************************************)
(* Bounds of the model.                                                    *)
(***************************************************************************)
MaxClasses == 3     \* classes declared in SpecClass
MaxMethods == 2     \* methods per declared class in SpecClass
MaxStmts == 4       \* top-level statements per program in SpecEval

(***************************************************************************)
(* Finite maps (std::unordered_map).                                       *)
(***************************************************************************)
EmptyMap == <<>>

Put(m, k, v) == [x \in (DOMAIN m) \cup {k} |-> IF x = k THEN v ELSE m[x]]

\* b laid over a: every key of b wins
Overlay(a, b) == [x \in (DOMAIN a) \cup (DOMAIN b) |-> IF x \in DOMAIN b THEN b[x] ELSE a[x]]

(***************************************************************************)
(* Runtime values: what an ObjectHolder holds.                             *)
(***************************************************************************)
NoneV == [kind |-> "None", n |-> 0, s |-> "", b |-> FALSE]

NumberV(i) == [kind |-> "Number", n |-> i, s |-> "", b |-> FALSE]

StringV(t) == [kind |-> "String", n |-> 0, s |-> t, b |-> FALSE]

BoolV(x) == [kind |-> "Bool", n |-> 0, s |-> "", b |-> x]

ClassV(name) == [kind |-> "Class", n |-> 0, s |-> name, b |-> FALSE]

\* a holder sharing the ClassInstance that lives at address id
InstanceV(id) == [kind |-> "Instance", n |-> id, s |-> "", b |-> FALSE]

(***************************************************************************)
(* Class: name, methods_, parent_, name_to_method_.                        *)
(* A Method is [name, formal_params, body]; body names an executable tree. *)
(* A const Method* is [owner, idx]: element idx of owner's methods_.       *)
(***************************************************************************)
NoParent == ""

NullMethod == [owner |-> "", idx |-> 0]

Method(name, formal_params, body) == [name |-> name, formal_params |-> formal_params, body |-> body]

MethodNamesOf(methods) == { methods[i].name : i \in 1..Len(methods) }

\* the element a loop "for method in methods: map[method.name] = &method" leaves under name
LastIndex(methods, name) ==
    CHOOSE i \in 1..Len(methods) :
        /\ methods[i].name = name
        /\ \A j \in 1..Len(methods) : methods[j].name = name => j <= i

MethodPtrs(owner, methods) ==
    [nm \in MethodNamesOf(methods) |-> [owner |-> owner, idx |-> LastIndex(methods, nm)]]

\* a null const Class*
NullClass == [name |-> NoParent, parent |-> NoParent, methods |-> <<>>, name_to_method |-> EmptyMap]

\* Class::Class(name, methods, parent); parent is NullClass or the parent's Class object
ClassCtor(name, methods, parent) ==
    LET inherited == IF parent.name # NoParent
                     THEN MethodPtrs(parent.name, parent.methods)
                     ELSE EmptyMap
        own == MethodPtrs(name, methods)
    IN [name |-> name,
        parent |-> parent.name,
        methods |-> methods,
        name_to_method |-> Overlay(inherited, own)]

\* Class::GetMethod
GetMethod(cls, name) ==
    IF name \in DOMAIN cls.name_to_method THEN cls.name_to_method[name] ELSE NullMethod

(***************************************************************************)
(* SpecClass: classes are declared one after another, each with any method *)
(* list and any already declared class (or none) as its parent.            *)
(***************************************************************************)
ClassNameAt(k) == CASE k = 1 -> "A" [] k = 2 -> "B" [] k = 3 -> "C" [] k = 4 -> "D" [] OTHER -> "E"

DeclMethodNames == {"m", "n"}

DeclMethods == { Method(nm, <<>>, 0) : nm \in DeclMethodNames }

SeqsUpTo(S, n) == UNION { [1..k -> S] : k \in 0..n }

DeclareClass(methods, parentName) ==
    /\ Cardinality(DOMAIN classes) < MaxClasses
    /\ parentName \in (DOMAIN classes) \cup {NoParent}
    /\ LET name == ClassNameAt(Cardinality(DOMAIN classes) + 1)
           parent == IF parentName = NoParent THEN NullClass ELSE classes[parentName]
       IN classes' = Put(classes, name, ClassCtor(name, methods, parent))
    /\ UNCHANGED <<closure, heap, status, pc, last, created, aliases, output, prog, addr_base>>
    /\ UNCHANGED lexVars

NextClass ==
    \E methods \in SeqsUpTo(DeclMethods, MaxMethods) :
        \E parentName \in {NoParent, "A", "B", "C", "D"} :
            DeclareClass(methods, parentName)


(***************************************************************************)
(* Executable tree (statement.h).  A node is a record tagged by `node`.    *)
(***************************************************************************)
NullStmt == [node |-> "Null"]   \* a null std::unique_ptr<Statement>

Const(v) == [node |-> "Const", v |-> v]

Var(ids) == [node |-> "VariableValue", ids |-> ids]

Assign(var, rv) == [node |-> "Assignment", var |-> var, rv |-> rv]

FieldAssign(object, field_name, rv) ==
    [node |-> "FieldAssignment", object |-> object, field_name |-> field_name, rv |-> rv]

Compound(statements) == [node |-> "Compound", statements |-> statements]

IfElse(condition, if_body, else_body) ==
    [node |-> "IfElse", condition |-> condition, if_body |-> if_body, else_body |-> else_body]

MethodBody(body) == [node |-> "MethodBody", body |-> body]

MethodCall(object, method_name, args) ==
    [node |-> "MethodCall", object |-> object, method_name |-> method_name, args |-> args]

\* id: the address of the node's class_inst_ member
NewInstance(id, cls, args) == [node |-> "NewInstance", id |-> id, cls |-> cls, args |-> args]

Return(statement) == [node |-> "Return", statement |-> statement]

Add(lhs, rhs) == [node |-> "Add", lhs |-> lhs, rhs |-> rhs]

And(lhs, rhs) == [node |-> "And", lhs |-> lhs, rhs |-> rhs]

Or(lhs, rhs) == [node |-> "Or", lhs |-> lhs, rhs |-> rhs]

PrintNode(args) == [node |-> "Print", args |-> args]

Stringify(argument) == [node |-> "Stringify", argument |-> argument]

Not(argument) == [node |-> "Not", argument |-> argument]

Comparison(cmp, lhs, rhs) == [node |-> "Comparison", cmp |-> cmp, lhs |-> lhs, rhs |-> rhs]

ClassDefinition(cls) == [node |-> "ClassDefinition", cls |-> cls]

(***************************************************************************)
(* The classes of the programs under execution, and their method bodies.   *)
(*                                                                         *)
(*   class Counter:                      class Dummy:                      *)
(*     def __init__():                     def do_add(counter):            *)
(*       self.value = 0                      counter.add()                 *)
(*     def add():                          def make():                     *)
(*       self.value = self.value + 1         return Counter()              *)
(*     def inc():                          def nested(a):                  *)
(*       self.value = self.value + 1         self.t = 1                    *)
(*       return True                         if a:                         *)
(*     def setv(v):                            self.t = 2                  *)
(*       self.value = v                        if a:                       *)
(*     def poke(other):                          return 7                  *)
(*       other.add()                             self.t = 3                *)
(*                                             self.t = 4                  *)
(*                                           else:                         *)
(*                                             self.t = 5                  *)
(*                                           self.t = 6                    *)
(*                                         def outer():                    *)
(*                                           self.u = self.inner()         *)
(*                                           self.w = 1                    *)
(*                                           return 2                      *)
(*                                         def inner():                    *)
(*                                           return 9                      *)
(*                                           self.w = 99                   *)
(*                                                                         *)
(*   class Point:                        class Loose:                      *)
(*     def __init__(x, y):                 def __eq__(other):              *)
(*       self.x = x                          return 1                      *)
(*       self.y = y                        def __lt__(other):              *)
(*     def SetX(value):                      return None                   *)
(*       self.x = value                                                    *)
(*     def __str__():                                                      *)
(*       return '(' + str(self.x) + '; ' + str(self.y) + ')'               *)
(*     def __eq__(other):                                                  *)
(*       return self.x == other.x                                          *)
(*     def __lt__(other):                                                  *)
(*       return self.x < other.x                                           *)
(***************************************************************************)
MakeNodeId == 100   \* address of the instance owned by the NewInstance node in Dummy.make

SelfValuePlusOne == FieldAssign(<<"self">>, "value", Add(Var(<<"self", "value">>), Const(NumberV(1))))

SetT(i) == FieldAssign(<<"self">>, "t", Const(NumberV(i)))

Body(b) ==
    CASE b = 1 -> MethodBody(Compound(<<FieldAssign(<<"self">>, "value", Const(NumberV(0)))>>))
      [] b = 2 -> MethodBody(Compound(<<SelfValuePlusOne>>))
      [] b = 3 -> MethodBody(Compound(<<SelfValuePlusOne, Return(Const(BoolV(TRUE)))>>))
      [] b = 4 -> MethodBody(Compound(<<FieldAssign(<<"self">>, "value", Var(<<"v">>))>>))
      [] b = 5 -> MethodBody(Compound(<<MethodCall(Var(<<"other">>), "add", <<>>)>>))
      [] b = 6 -> MethodBody(Compound(<<MethodCall(Var(<<"counter">>), "add", <<>>)>>))
      [] b = 7 -> MethodBody(Compound(<<Return(NewInstance(MakeNodeId, "Counter", <<>>))>>))
      [] b = 8 -> MethodBody(Compound(<<
                      SetT(1),
                      IfElse(Var(<<"a">>),
                             Compound(<<SetT(2),
                                        IfElse(Var(<<"a">>),
                                               Compound(<<Return(Const(NumberV(7))), SetT(3)>>),
                                               NullStmt),
                                        SetT(4)>>),
                             Compound(<<SetT(5)>>)),
                      SetT(6)>>))
      [] b = 9 -> MethodBody(Compound(<<
                      FieldAssign(<<"self">>, "u", MethodCall(Var(<<"self">>), "inner", <<>>)),
                      FieldAssign(<<"self">>, "w", Const(NumberV(1))),
                      Return(Const(NumberV(2)))>>))
      [] b = 10 -> MethodBody(Compound(<<
                      Return(Const(NumberV(9))),
                      FieldAssign(<<"self">>, "w", Const(NumberV(99)))>>))
      [] b = 11 -> MethodBody(Compound(<<
                      FieldAssign(<<"self">>, "x", Var(<<"x">>)),
                      FieldAssign(<<"self">>, "y", Var(<<"y">>))>>))
      [] b = 12 -> MethodBody(Compound(<<FieldAssign(<<"self">>, "x", Var(<<"value">>))>>))
      [] b = 13 -> MethodBody(Compound(<<
                      Return(Add(Add(Add(Add(Const(StringV("(")),
                                             Stringify(Var(<<"self", "x">>))),
                                         Const(StringV("; "))),
                                     Stringify(Var(<<"self", "y">>))),
                                 Const(StringV(")"))))>>))
      [] b = 14 -> MethodBody(Compound(<<
                      Return(Comparison("Equal", Var(<<"self", "x">>), Var(<<"other", "x">>)))>>))
      [] b = 15 -> MethodBody(Compound(<<
                      Return(Comparison("Less", Var(<<"self", "x">>), Var(<<"other", "x">>)))>>))
      [] b = 16 -> MethodBody(Compound(<<Return(Const(NumberV(1)))>>))
      [] b = 17 -> MethodBody(Compound(<<Return(Const(NoneV))>>))
      [] b = 18 -> MethodBody(Compound(<<Return(Var(<<"v1">>))>>))
      [] b = 19 -> MethodBody(Compound(<<Assign("v1", Var(<<"v">>)),
                                         Assign("x", Var(<<"self">>)),
                                         Return(Var(<<"v1">>))>>))
      [] OTHER -> MethodBody(Compound(<<Return(Var(<<"b">>))>>))

CounterClass ==
    ClassCtor("Counter",
              <<Method("__init__", <<>>, 1), Method("add", <<>>, 2), Method("inc", <<>>, 3),
                Method("setv", <<"v">>, 4), Method("poke", <<"other">>, 5)>>,
              NullClass)

DummyClass ==
    ClassCtor("Dummy",
              <<Method("do_add", <<"counter">>, 6), Method("make", <<>>, 7),
                Method("nested", <<"a">>, 8), Method("outer", <<>>, 9),
                Method("inner", <<>>, 10)>>,
              NullClass)

PointClass ==
    ClassCtor("Point",
              <<Method("__init__", <<"x", "y">>, 11), Method("SetX", <<"value">>, 12),
                Method("__str__", <<>>, 13), Method("__eq__", <<"other">>, 14),
                Method("__lt__", <<"other">>, 15)>>,
              NullClass)

LooseClass ==
    ClassCtor("Loose",
              <<Method("__eq__", <<"other">>, 16), Method("__lt__", <<"other">>, 17)>>,
              NullClass)

\* class Probe:
\*   def peek():        def shadow(v):       def echo(a, b):
\*     return v1          v1 = v               return b
\*                        x = self
\*                        return v1
ProbeClass ==
    ClassCtor("Probe",
              <<Method("peek", <<>>, 18), Method("shadow", <<"v">>, 19),
                Method("echo", <<"a", "b">>, 20)>>,
              NullClass)

ClassTable ==
    [c \in {"Counter", "Dummy", "Point", "Loose", "Probe"} |->
        CASE c = "Counter" -> CounterClass
          [] c = "Dummy" -> DummyClass
          [] c = "Point" -> PointClass
          [] c = "Loose" -> LooseClass
          [] OTHER -> ProbeClass]

\* *method_ptr
MethodAt(p) == ClassTable[p.owner].methods[p.idx]


(***************************************************************************)
(* Execution.  Execute(node, env) models Statement::Execute(closure,       *)
(* context).  env carries what the call can reach: clo (the Closure&),     *)
(* heap (the ClassInstance objects), and two observers: trace, the events  *)
(* of this top-level statement in order, and depth, the number of          *)
(* MethodBody nodes being executed.  The result adds sig, val, msg:        *)
(*   sig = "ok"      the call returned val                                 *)
(*   sig = "return"  a ReturnException carrying val is propagating         *)
(*   sig = "error"   a std::runtime_error with what() = msg is propagating *)
(*   sig = "ub"      the call dereferenced a null pointer or read past a   *)
(*                   vector (undefined behaviour)                          *)
(* env also carries out, the text in the Context's output stream, and      *)
(* base, where the allocator of this run placed the objects.               *)
(***************************************************************************)
Ok(env, v) ==
    [sig |-> "ok", val |-> v, msg |-> "",
     clo |-> env.clo, heap |-> env.heap, trace |-> env.trace, depth |-> env.depth,
     out |-> env.out, base |-> env.base]

Raise(env, sig, v, m) ==
    [sig |-> sig, val |-> v, msg |-> m,
     clo |-> env.clo, heap |-> env.heap, trace |-> env.trace, depth |-> env.depth,
     out |-> env.out, base |-> env.base]

Log(env, ev, id, v) ==
    [env EXCEPT !.trace = Append(@, [ev |-> ev, id |-> id, val |-> v, depth |-> env.depth])]

\* observer: the Closure a MethodBody is executed against
ScopeOf(clo) == [kind |-> "Scope", clo |-> clo]

\* the addresses one program's objects get differ from run to run (address
\* space layout): a run has one of these bases
AddrBases == {4096, 8192}

FirstBase == CHOOSE b \in AddrBases : \A c \in AddrBases : b <= c

\* the ClassInstance at address id: NewInstance nodes own theirs from construction, fields empty
Cell(h, id, cls) == IF id \in DOMAIN h THEN h[id] ELSE [cls |-> cls, fields |-> EmptyMap]

RECURSIVE Execute(_, _)
RECURSIVE ExecuteArgs(_, _, _, _)
RECURSIVE ExecuteStatements(_, _, _)
RECURSIVE WalkPath(_, _, _, _)
RECURSIVE WalkPath_Strict(_, _, _, _)
RECURSIVE BindParams(_, _, _, _)

\* mutant: an instance is true
IsTrue_InstanceTrue(v) ==
    CASE v.kind = "Bool" -> v.b
      [] v.kind = "Number" -> v.n # 0
      [] v.kind = "String" -> v.s # ""
      [] OTHER -> v.kind = "Instance"

\* runtime::IsTrue
IsTrue(v) ==
    CASE v.kind = "Bool" -> v.b
      [] v.kind = "Number" -> v.n # 0
      [] v.kind = "String" -> v.s # ""
      [] OTHER -> FALSE

\* mutant: a value that is not an instance is an error when names remain
WalkPath_Strict(ids, i, scope, h) ==
    IF ids[i] \notin DOMAIN scope
    THEN [found |-> FALSE, val |-> NoneV]
    ELSE LET v == scope[ids[i]]
         IN IF i = Len(ids) THEN [found |-> TRUE, val |-> v]
            ELSE IF v.kind # "Instance" THEN [found |-> FALSE, val |-> NoneV]
            ELSE WalkPath(ids, i + 1, h[v.n].fields, h)

\* the loop of VariableValue::Execute from element i of dotted_ids_, closure_ptr = scope
WalkPath(ids, i, scope, h) ==
    IF ids[i] \notin DOMAIN scope
    THEN [found |-> FALSE, val |-> NoneV]
    ELSE LET v == scope[ids[i]]
         IN IF v.kind # "Instance" \/ i = Len(ids)
            THEN [found |-> TRUE, val |-> v]
            ELSE WalkPath(ids, i + 1, h[v.n].fields, h)

\* VariableValue::Execute
VariableValueExecute(node, env) ==
    LET w == WalkPath(node.ids, 1, env.clo, env.heap)
    IN IF w.found THEN Ok(env, w.val) ELSE Raise(env, "error", NoneV, "var is not found")

\* mutant: assignment stores a copy of the instance instead of sharing it
AssignmentExecute_Copy(node, env) ==
    LET r == Execute(node.rv, env)
        copy == 1000 + r.val.n
    IN IF r.sig # "ok" THEN r
       ELSE IF r.val.kind = "Instance"
       THEN Ok([r EXCEPT !.clo = Put(r.clo, node.var, InstanceV(copy)),
                         !.heap = Put(r.heap, copy, r.heap[r.val.n])],
               InstanceV(copy))
       ELSE Ok([r EXCEPT !.clo = Put(r.clo, node.var, r.val)], r.val)

\* Assignment::Execute
AssignmentExecute(node, env) ==
    LET r == Execute(node.rv, env)
    IN IF r.sig # "ok" THEN r
       ELSE Ok([r EXCEPT !.clo = Put(r.clo, node.var, r.val)], r.val)

\* FieldAssignment::Execute; the right operand of = is evaluated first (C++17)
FieldAssignmentExecute(node, env) ==
    LET obj == VariableValueExecute(Var(node.object), env)
        r == Execute(node.rv, obj)
        id == obj.val.n
        cell == r.heap[id]
    IN IF obj.sig # "ok" THEN obj
       ELSE IF r.sig # "ok" THEN r
       ELSE IF obj.val.kind # "Instance" THEN Raise(r, "ub", NoneV, "null ClassInstance*")
       ELSE Ok([r EXCEPT !.heap = Put(r.heap, id,
                                      [cell EXCEPT !.fields = Put(cell.fields, node.field_name, r.val)])],
               r.val)

\* the loop of Compound::Execute from statement i
ExecuteStatements(statements, i, env) ==
    IF i > Len(statements) THEN Ok(env, NoneV)
    ELSE LET r == Execute(statements[i], env)
         IN IF r.sig # "ok" THEN r ELSE ExecuteStatements(statements, i + 1, r)

\* Compound::Execute
CompoundExecute(node, env) == ExecuteStatements(node.statements, 1, env)

\* IfElse::Execute
IfElseExecute(node, env) ==
    LET c == Execute(node.condition, env)
    IN IF c.sig # "ok" THEN c
       ELSE IF IsTrue(c.val) THEN Execute(node.if_body, c)
       ELSE IF node.else_body.node # "Null" THEN Execute(node.else_body, c)
       ELSE Ok(c, NoneV)

\* mutant: the catch clause drops the carried value
MethodBodyExecute_DropValue(node, env) ==
    LET r == Execute(node.body, Log([env EXCEPT !.depth = @ + 1], "body_enter", 0, ScopeOf(env.clo)))
    IN IF r.sig = "return" THEN [Ok(Log(r, "catch", 0, NoneV), NoneV) EXCEPT !.depth = env.depth]
       ELSE IF r.sig = "ok" THEN [Ok(Log(r, "body_end", 0, NoneV), NoneV) EXCEPT !.depth = env.depth]
       ELSE [r EXCEPT !.depth = env.depth]

\* MethodBody::Execute
MethodBodyExecute(node, env) ==
    LET r == Execute(node.body, Log([env EXCEPT !.depth = @ + 1], "body_enter", 0, ScopeOf(env.clo)))
    IN IF r.sig = "return" THEN [Ok(Log(r, "catch", 0, r.val), r.val) EXCEPT !.depth = env.depth]
       ELSE IF r.sig = "ok" THEN [Ok(Log(r, "body_end", 0, NoneV), NoneV) EXCEPT !.depth = env.depth]
       ELSE [r EXCEPT !.depth = env.depth]

\* the argument loops of MethodCall::Execute and NewInstance::Execute from argument i
ExecuteArgs(args, i, env, acc) ==
    IF i > Len(args) THEN [r |-> Ok(env, NoneV), vals |-> acc]
    ELSE LET r == Execute(args[i], env)
         IN IF r.sig # "ok" THEN [r |-> r, vals |-> acc]
            ELSE ExecuteArgs(args, i + 1, r, Append(acc, r.val))

\* mutant: the arity of the method is not compared
HasMethod_AnyArity(cls, method, argument_count) ==
    GetMethod(cls, method) # NullMethod

\* ClassInstance::HasMethod, cls being the instance's cls_
HasMethod(cls, method, argument_count) ==
    LET method_ptr == GetMethod(cls, method)
    IN method_ptr # NullMethod /\ Len(MethodAt(method_ptr).formal_params) = argument_count

\* the loop "closure[formal_params[i]] = actual_args[i]" of ClassInstance::Call from index i
BindParams(formal_params, actual_args, i, clo) ==
    IF i > Len(actual_args) THEN clo
    ELSE BindParams(formal_params, actual_args, i + 1, Put(clo, formal_params[i], actual_args[i]))

\* mutant: the method's scope starts as a copy of the caller's
ClassInstanceCall_CallerScope(id, method, actual_args, env) ==
    LET called == Log(env, "call", id, StringV(method))
        Enter(m) ==
            IF Len(actual_args) > Len(m.formal_params)
            THEN Raise(called, "ub", NoneV, "formal_params[i] past the end")
            ELSE LET local == BindParams(m.formal_params, actual_args, 1,
                                         Put(env.clo, "self", InstanceV(id)))
                 IN [Execute(Body(m.body), [called EXCEPT !.clo = local]) EXCEPT !.clo = env.clo]
        OnClass(cls) ==
            IF ~HasMethod(cls, method, Len(actual_args))
            THEN Raise(called, "error", NoneV, "Not implemented")
            ELSE Enter(MethodAt(GetMethod(cls, method)))
    IN OnClass(ClassTable[env.heap[id].cls])

\* ClassInstance::Call on the instance at address id
ClassInstanceCall(id, method, actual_args, env) ==
    LET called == Log(env, "call", id, StringV(method))
        \* from "Closure closure;" on, method_ptr pointing at the Method m
        Enter(m) ==
            IF Len(actual_args) > Len(m.formal_params)
            THEN Raise(called, "ub", NoneV, "formal_params[i] past the end")
            ELSE LET local == BindParams(m.formal_params, actual_args, 1,
                                         Put(EmptyMap, "self", InstanceV(id)))
                 IN [Execute(Body(m.body), [called EXCEPT !.clo = local]) EXCEPT !.clo = env.clo]
        \* the whole call, cls being cls_
        OnClass(cls) ==
            IF ~HasMethod(cls, method, Len(actual_args))
            THEN Raise(called, "error", NoneV, "Not implemented")
            ELSE Enter(MethodAt(GetMethod(cls, method)))
    IN OnClass(ClassTable[env.heap[id].cls])

\* mutant: the arguments are evaluated before the receiver
MethodCallExecute_ArgsFirst(node, env) ==
    LET a == ExecuteArgs(node.args, 1, env, <<>>)
        obj == Execute(node.object, a.r)
    IN IF a.r.sig # "ok" THEN a.r
       ELSE IF obj.sig # "ok" THEN obj
       ELSE IF obj.val.kind # "Instance" THEN Raise(obj, "ub", NoneV, "null ClassInstance*")
       ELSE ClassInstanceCall(obj.val.n, node.method_name, a.vals, obj)

\* MethodCall::Execute
MethodCallExecute(node, env) ==
    LET obj == Execute(node.object, env)
        a == ExecuteArgs(node.args, 1, obj, <<>>)
    IN IF obj.sig # "ok" THEN obj
       ELSE IF a.r.sig # "ok" THEN a.r
       ELSE IF obj.val.kind # "Instance" THEN Raise(a.r, "ub", NoneV, "null ClassInstance*")
       ELSE ClassInstanceCall(obj.val.n, node.method_name, a.vals, a.r)

\* NewInstance::Execute; the instance returned is the node's own class_inst_
NewInstanceExecute(node, env) ==
    LET a == ExecuteArgs(node.args, 1, env, <<>>)
        cell == Cell(a.r.heap, node.id, node.cls)
        e == Log([a.r EXCEPT !.heap = Put(a.r.heap, node.id, cell)],
                 "new", node.id, BoolV(DOMAIN cell.fields = {}))
        \* after the Call of __init__ returned or threw c
        Called(c) == IF c.sig # "ok" THEN c ELSE Ok(c, InstanceV(node.id))
    IN IF a.r.sig # "ok" THEN a.r
       ELSE IF HasMethod(ClassTable[node.cls], "__init__", Len(node.args))
       THEN Called(ClassInstanceCall(node.id, "__init__", a.vals, e))
       ELSE Ok(e, InstanceV(node.id))

\* Return::Execute
ReturnExecute(node, env) ==
    LET r == Execute(node.statement, env)
    IN IF r.sig # "ok" THEN r
       ELSE Raise(Log(r, "return", 0, r.val), "return", r.val, "")

\* Add::Execute
AddExecute(node, env) ==
    LET l == Execute(node.lhs, env)
        r == Execute(node.rhs, l)
    IN IF node.lhs.node = "Null" \/ node.rhs.node = "Null"
       THEN Raise(env, "error", NoneV, "null operands are not supported")
       ELSE IF l.sig # "ok" THEN l
       ELSE IF r.sig # "ok" THEN r
       ELSE IF l.val.kind = "Number" /\ r.val.kind = "Number" THEN Ok(r, NumberV(l.val.n + r.val.n))
       ELSE IF l.val.kind = "String" /\ r.val.kind = "String" THEN Ok(r, StringV(l.val.s \o r.val.s))
       ELSE IF l.val.kind = "Instance" /\ HasMethod(ClassTable[r.heap[l.val.n].cls], "__add__", 1)
       THEN ClassInstanceCall(l.val.n, "__add__", <<r.val>>, r)
       ELSE Raise(r, "error", NoneV, "incorrect add operands")

\* And::Execute
AndExecute(node, env) ==
    LET l == Execute(node.lhs, env)
        r == Execute(node.rhs, Log(Log(l, "and_lhs", 0, l.val), "and_rhs", 0, NoneV))
        res == BoolV(IsTrue(l.val) /\ IsTrue(r.val))
    IN IF node.lhs.node = "Null" \/ node.rhs.node = "Null"
       THEN Raise(env, "error", NoneV, "null operands are not supported")
       ELSE IF l.sig # "ok" THEN l
       ELSE IF r.sig # "ok" THEN r
       ELSE Ok(Log(r, "and", 0, res), res)

\* Or::Execute
OrExecute(node, env) ==
    LET l == Execute(node.lhs, env)
        r == Execute(node.rhs, Log(Log(l, "or_lhs", 0, l.val), "or_rhs", 0, NoneV))
        res == BoolV(IsTrue(l.val) \/ IsTrue(r.val))
    IN IF node.lhs.node = "Null" \/ node.rhs.node = "Null"
       THEN Raise(env, "error", NoneV, "null operands are not supported")
       ELSE IF l.sig # "ok" THEN l
       ELSE IF r.sig # "ok" THEN r
       ELSE Ok(Log(r, "or", 0, res), res)

\* what operator<< writes for the pointer `this` of the instance at address id
AddressText(base, id) == "0x" \o ToString(base + id)

RECURSIVE ObjectPrint(_, _)
\* Object::Print(os, context) on the object v holds; os is the stream of context
ObjectPrint(v, env) ==
    CASE v.kind = "Number" -> Ok([env EXCEPT !.out = @ \o ToString(v.n)], NoneV)
      [] v.kind = "String" -> Ok([env EXCEPT !.out = @ \o v.s], NoneV)
      [] v.kind = "Bool" -> Ok([env EXCEPT !.out = @ \o (IF v.b THEN "True" ELSE "False")], NoneV)
      [] v.kind = "Class" -> Ok([env EXCEPT !.out = @ \o "Class " \o v.s], NoneV)
      [] v.kind = "Instance" ->
            \* ClassInstance::Print
            LET \* "->Print(os, context)" on what the Call returned or threw
                PrintResult(r) == IF r.sig # "ok" THEN r ELSE ObjectPrint(r.val, r)
                WithMethod(method_ptr) ==
                    IF method_ptr # NullMethod
                    THEN PrintResult(ClassInstanceCall(v.n, MethodAt(method_ptr).name, <<>>, env))
                    ELSE Ok([env EXCEPT !.out = @ \o AddressText(env.base, v.n)], NoneV)
            IN WithMethod(GetMethod(ClassTable[env.heap[v.n].cls], "__str__"))
      [] OTHER -> Raise(env, "ub", NoneV, "null Object*")

RECURSIVE PrintArgs(_, _, _)
\* mutant: an argument is printed from the state the later arguments leave
PrintArgs_Late(args, i, env) ==
    IF i > Len(args) THEN env
    ELSE LET sep == IF i > 1 THEN [env EXCEPT !.out = @ \o " "] ELSE env
             obj == Execute(args[i], sep)
             late == ExecuteArgs(args, i + 1, obj, <<>>).r
             Printed(p) == IF p.sig # "ok" THEN p ELSE PrintArgs(args, i + 1, Ok(p, obj.val))
         IN IF obj.sig # "ok" THEN obj
            ELSE IF obj.val.kind = "None"
            THEN Printed(Ok([obj EXCEPT !.out = @ \o "None"], NoneV))
            ELSE Printed(ObjectPrint(obj.val, [obj EXCEPT !.heap = late.heap]))

\* the loop of Print::Execute from argument i; env.val is obj
PrintArgs(args, i, env) ==
    IF i > Len(args) THEN env
    ELSE LET sep == IF i > 1 THEN [env EXCEPT !.out = @ \o " "] ELSE env
             obj == Execute(args[i], sep)
             \* the rest of the loop, the argument written or its Print having thrown p
             Printed(p) == IF p.sig # "ok" THEN p ELSE PrintArgs(args, i + 1, Ok(p, obj.val))
         IN IF obj.sig # "ok" THEN obj
            ELSE IF obj.val.kind = "None"
            THEN Printed(Ok([obj EXCEPT !.out = @ \o "None"], NoneV))
            ELSE Printed(ObjectPrint(obj.val, obj))

\* mutant: the line is not ended
PrintExecute_NoNewline(node, env) == PrintArgs(node.args, 1, Ok(env, NoneV))

\* Print::Execute
PrintExecute(node, env) ==
    LET r == PrintArgs(node.args, 1, Ok(env, NoneV))
    IN IF r.sig # "ok" THEN r ELSE Ok([r EXCEPT !.out = @ \o "\n"], r.val)

\* mutant: the operand is read as a Bool without IsTrue
NotExecute_Raw(node, env) ==
    LET a == Execute(node.argument, env)
    IN IF a.sig # "ok" THEN a ELSE Ok(a, BoolV(~a.val.b))

\* Not::Execute
NotExecute(node, env) ==
    LET a == Execute(node.argument, env)
    IN IF node.argument.node = "Null"
       THEN Raise(env, "error", NoneV, "null operands are not supported")
       ELSE IF a.sig # "ok" THEN a
       ELSE Ok(a, BoolV(~IsTrue(a.val)))

\* mutant: the text of a String is written between quotes
StringifyExecute_Quoted(node, env) ==
    LET obj == Execute(node.argument, env)
        Str(p) == IF p.sig # "ok" THEN [p EXCEPT !.out = obj.out]
                  ELSE Ok([p EXCEPT !.out = obj.out], StringV(p.out))
    IN IF obj.sig # "ok" THEN obj
       ELSE IF obj.val.kind = "String" THEN Ok(obj, StringV("'" \o obj.val.s \o "'"))
       ELSE Str(ObjectPrint(obj.val, [obj EXCEPT !.out = ""]))

\* Stringify::Execute; the object prints into the stream of a DummyContext
StringifyExecute(node, env) ==
    LET obj == Execute(node.argument, env)
        \* out.str() of the stream the object was printed into
        Str(p) == IF p.sig # "ok" THEN [p EXCEPT !.out = obj.out]
                  ELSE Ok([p EXCEPT !.out = obj.out], StringV(p.out))
    IN IF obj.sig # "ok" THEN obj
       ELSE IF obj.val.kind = "None" THEN Ok(obj, StringV("None"))
       ELSE Str(ObjectPrint(obj.val, [obj EXCEPT !.out = ""]))

\* ClassDefinition::Execute
ClassDefinitionExecute(node, env) ==
    Ok([env EXCEPT !.clo = Put(env.clo, node.cls, ClassV(node.cls))], NoneV)

\* the characters of a std::string, as their codes (the strings the programs compare)
StringCodes(t) ==
    CASE t = "" -> <<>>
      [] t = "a" -> <<97>>
      [] t = "ab" -> <<97, 98>>
      [] OTHER -> <<98>>

RECURSIVE SeqLess(_, _)
\* std::string operator<: lexicographic
SeqLess(a, b) ==
    IF b = <<>> THEN FALSE
    ELSE IF a = <<>> THEN TRUE
    ELSE IF Head(a) # Head(b) THEN Head(a) < Head(b)
    ELSE SeqLess(Tail(a), Tail(b))

EQ_METHOD_ARGS_COUNT == 1

LT_METHOD_ARGS_COUNT == 1

\* "return res.TryAs<Bool>()->GetValue()" on what the Call returned or threw
BoolOf(res) ==
    IF res.sig # "ok" THEN res
    ELSE IF res.val.kind = "Bool" THEN Ok(res, res.val)
    ELSE Raise(res, "ub", NoneV, "null Bool*")

\* mutant: values of different kinds compare unequal instead of raising
Equal_Lenient(lhs, rhs, env) ==
    IF /\ lhs.kind = "Instance"
       /\ HasMethod(ClassTable[env.heap[lhs.n].cls], "__eq__", EQ_METHOD_ARGS_COUNT)
    THEN BoolOf(ClassInstanceCall(lhs.n, "__eq__", <<rhs>>, env))
    ELSE Ok(env, BoolV(lhs = rhs))

\* runtime::Equal; the result's val is the bool returned
Equal(lhs, rhs, env) ==
       IF lhs.kind = "None" /\ rhs.kind = "None" THEN Ok(env, BoolV(TRUE))
       ELSE IF lhs.kind = "None"
       THEN Raise(env, "error", NoneV, "Cannot compare objects for equality")
       ELSE IF lhs.kind = "Number" /\ rhs.kind = "Number" THEN Ok(env, BoolV(lhs.n = rhs.n))
       ELSE IF lhs.kind = "String" /\ rhs.kind = "String" THEN Ok(env, BoolV(lhs.s = rhs.s))
       ELSE IF lhs.kind = "Bool" /\ rhs.kind = "Bool" THEN Ok(env, BoolV(lhs.b = rhs.b))
       ELSE IF /\ lhs.kind = "Instance"
               /\ HasMethod(ClassTable[env.heap[lhs.n].cls], "__eq__", EQ_METHOD_ARGS_COUNT)
       THEN BoolOf(ClassInstanceCall(lhs.n, "__eq__", <<rhs>>, env))
       ELSE Raise(env, "error", NoneV, "Cannot compare objects for equality")

\* runtime::Less
Less(lhs, rhs, env) ==
       IF lhs.kind = "None"
       THEN Raise(env, "error", NoneV, "Cannot compare objects for equality")
       ELSE IF lhs.kind = "Number" /\ rhs.kind = "Number" THEN Ok(env, BoolV(lhs.n < rhs.n))
       ELSE IF lhs.kind = "String" /\ rhs.kind = "String"
       THEN Ok(env, BoolV(SeqLess(StringCodes(lhs.s), StringCodes(rhs.s))))
       ELSE IF lhs.kind = "Bool" /\ rhs.kind = "Bool" THEN Ok(env, BoolV(~lhs.b /\ rhs.b))
       ELSE IF /\ lhs.kind = "Instance"
               /\ HasMethod(ClassTable[env.heap[lhs.n].cls], "__lt__", LT_METHOD_ARGS_COUNT)
       THEN BoolOf(ClassInstanceCall(lhs.n, "__lt__", <<rhs>>, env))
       ELSE Raise(env, "error", NoneV, "Cannot compare objects for less")

\* operator! on the bool a comparison returned; an exception passes through
Negated(r) == IF r.sig # "ok" THEN r ELSE Ok(r, BoolV(~r.val.b))

\* runtime::NotEqual
NotEqual(lhs, rhs, env) == Negated(Equal(lhs, rhs, env))

\* mutant: Greater is the negation of Less
Greater_NotLess(lhs, rhs, env) == Negated(Less(lhs, rhs, env))

\* runtime::Greater: !Less(...) && !Equal(...)
Greater(lhs, rhs, env) ==
    LET AfterLess(l) ==
            IF l.sig # "ok" THEN l
            ELSE IF l.val.b THEN Ok(l, BoolV(FALSE))
            ELSE Negated(Equal(lhs, rhs, l))
    IN AfterLess(Less(lhs, rhs, env))

\* runtime::LessOrEqual: Less(...) || Equal(...)
LessOrEqual(lhs, rhs, env) ==
    LET AfterLess(l) ==
            IF l.sig # "ok" THEN l
            ELSE IF l.val.b THEN Ok(l, BoolV(TRUE))
            ELSE Equal(lhs, rhs, l)
    IN AfterLess(Less(lhs, rhs, env))

\* runtime::GreaterOrEqual
GreaterOrEqual(lhs, rhs, env) == Negated(Less(lhs, rhs, env))

\* the Comparator cmp_ of a Comparison node
Comparator(cmp, lhs, rhs, env) ==
    CASE cmp = "Equal" -> Equal(lhs, rhs, env)
      [] cmp = "NotEqual" -> NotEqual(lhs, rhs, env)
      [] cmp = "Less" -> Less(lhs, rhs, env)
      [] cmp = "Greater" -> Greater(lhs, rhs, env)
      [] cmp = "LessOrEqual" -> LessOrEqual(lhs, rhs, env)
      [] OTHER -> GreaterOrEqual(lhs, rhs, env)

\* Comparison::Execute
ComparisonExecute(node, env) ==
    LET l == Execute(node.lhs, env)
        r == Execute(node.rhs, l)
        res == Comparator(node.cmp, l.val, r.val, r)
    IN IF node.lhs.node = "Null" \/ node.rhs.node = "Null"
       THEN Raise(env, "error", NoneV, "null operands are not supported")
       ELSE IF l.sig # "ok" THEN l
       ELSE IF r.sig # "ok" THEN r
       ELSE res

\* the virtual dispatch of Executable::Execute
Execute(node, env) ==
    CASE node.node = "Const" -> Ok(env, node.v)
      [] node.node = "VariableValue" -> VariableValueExecute(node, env)
      [] node.node = "Assignment" -> AssignmentExecute(node, env)
      [] node.node = "FieldAssignment" -> FieldAssignmentExecute(node, env)
      [] node.node = "Compound" -> CompoundExecute(node, env)
      [] node.node = "IfElse" -> IfElseExecute(node, env)
      [] node.node = "MethodBody" -> MethodBodyExecute(node, env)
      [] node.node = "MethodCall" -> MethodCallExecute(node, env)
      [] node.node = "NewInstance" -> NewInstanceExecute(node, env)
      [] node.node = "Return" -> ReturnExecute(node, env)
      [] node.node = "Add" -> AddExecute(node, env)
      [] node.node = "And" -> AndExecute(node, env)
      [] node.node = "Or" -> OrExecute(node, env)
      [] node.node = "Print" -> PrintExecute(node, env)
      [] node.node = "Not" -> NotExecute(node, env)
      [] node.node = "Stringify" -> StringifyExecute(node, env)
      [] node.node = "ClassDefinition" -> ClassDefinitionExecute(node, env)
      [] node.node = "Comparison" -> ComparisonExecute(node, env)


(***************************************************************************)
(* SpecEval: the driver (RunMythonProgram) executes the top-level Compound *)
(* of a program.  The program is any sequence of at most MaxStmts of the   *)
(* statements below; pos is the statement's place in the program, and the  *)
(* NewInstance node of a top-level statement owns the instance at address  *)
(* pos (every statement of a program text is a node of its own).           *)
(*                                                                         *)
(*    1  x = Counter()             10  r = x.value or x.inc()              *)
(*    2  y = x                     11  return 1                            *)
(*    3  d = Dummy()               12  r = d.nested(1)                     *)
(*    4  x.add()                   13  r = d.nested(0)                     *)
(*    5  y.value = 5               14  r = d.outer()                       *)
(*    6  d.do_add(x)               15  x.nosuch()                          *)
(*    7  x.poke(y)                 16  x.add(1)                            *)
(*    8  y = d.make()              17  x.setv()                            *)
(*    9  r = x.value and x.inc()                                           *)
(***************************************************************************)
TopStmt(k, pos) ==
    CASE k = 1 -> Assign("x", NewInstance(pos, "Counter", <<>>))
      [] k = 2 -> Assign("y", Var(<<"x">>))
      [] k = 3 -> Assign("d", NewInstance(pos, "Dummy", <<>>))
      [] k = 4 -> MethodCall(Var(<<"x">>), "add", <<>>)
      [] k = 5 -> FieldAssign(<<"y">>, "value", Const(NumberV(5)))
      [] k = 6 -> MethodCall(Var(<<"d">>), "do_add", <<Var(<<"x">>)>>)
      [] k = 7 -> MethodCall(Var(<<"x">>), "poke", <<Var(<<"y">>)>>)
      [] k = 8 -> Assign("y", MethodCall(Var(<<"d">>), "make", <<>>))
      [] k = 9 -> Assign("r", And(Var(<<"x", "value">>), MethodCall(Var(<<"x">>), "inc", <<>>)))
      [] k = 10 -> Assign("r", Or(Var(<<"x", "value">>), MethodCall(Var(<<"x">>), "inc", <<>>)))
      [] k = 11 -> Return(Const(NumberV(1)))
      [] k = 12 -> Assign("r", MethodCall(Var(<<"d">>), "nested", <<Const(NumberV(1))>>))
      [] k = 13 -> Assign("r", MethodCall(Var(<<"d">>), "nested", <<Const(NumberV(0))>>))
      [] k = 14 -> Assign("r", MethodCall(Var(<<"d">>), "outer", <<>>))
      [] k = 15 -> MethodCall(Var(<<"x">>), "nosuch", <<>>)
      [] k = 16 -> MethodCall(Var(<<"x">>), "add", <<Const(NumberV(1))>>)
      [] OTHER -> MethodCall(Var(<<"x">>), "setv", <<>>)

AssignmentStmts == {1, 2, 3, 8, 9, 10, 12, 13, 14}

FieldAssignmentStmts == {5}

MethodCallStmts == {4, 6, 7, 15, 16, 17}

ReturnStmts == {11}

\* history: the NewInstance evaluations of a trace, in order
NewEvents(trace) ==
    LET news == SelectSeq(trace, LAMBDA e : e.ev = "new")
    IN [i \in 1..Len(news) |-> [ref |-> news[i].id, empty |-> news[i].val.b]]

\* history: the pairs <<b, a>> such that "b = a" bound b to the instance a names
AliasesAfter(node, r) ==
    IF node.node # "Assignment" THEN aliases
    ELSE LET kept == { p \in aliases : p[1] # node.var /\ p[2] # node.var }
         IN IF /\ r.sig = "ok"
               /\ r.val.kind = "Instance"
               /\ node.rv.node = "VariableValue"
               /\ Len(node.rv.ids) = 1
               /\ node.rv.ids[1] # node.var
            THEN kept \cup {<<node.var, node.rv.ids[1]>>}
            ELSE kept

\* one statement of the top-level Compound; an exception ends the program
RunStmt(k) ==
    /\ status = "running"
    /\ pc < MaxStmts
    /\ \E node \in {TopStmt(k, pc + 1)} :
       \E r \in {Execute(node, [clo |-> closure, heap |-> heap, trace |-> <<>>, depth |-> 0,
                                 out |-> output, base |-> addr_base])} :
          /\ closure' = r.clo
          /\ heap' = r.heap
          /\ status' = CASE r.sig = "ok" -> "running"
                         [] r.sig = "return" -> "return_escaped"
                         [] r.sig = "error" -> "error"
                         [] OTHER -> "ub"
          /\ last' = [stmt |-> k, sig |-> r.sig, val |-> r.val, msg |-> r.msg, trace |-> r.trace]
          /\ created' = created \o NewEvents(r.trace)
          /\ aliases' = AliasesAfter(node, r)
          /\ output' = r.out
    /\ pc' = pc + 1
    /\ UNCHANGED <<classes, prog, addr_base>>
    /\ UNCHANGED lexVars

ExecAssignment ==
    \E k \in AssignmentStmts : TopStmt(k, pc + 1).node = "Assignment" /\ RunStmt(k)

ExecFieldAssignment ==
    \E k \in FieldAssignmentStmts : TopStmt(k, pc + 1).node = "FieldAssignment" /\ RunStmt(k)

ExecMethodCall ==
    \E k \in MethodCallStmts : TopStmt(k, pc + 1).node = "MethodCall" /\ RunStmt(k)

ExecReturn ==
    \E k \in ReturnStmts : TopStmt(k, pc + 1).node = "Return" /\ RunStmt(k)

NextEval == ExecAssignment \/ ExecFieldAssignment \/ ExecMethodCall \/ ExecReturn

(***************************************************************************)
(* SpecValue and SpecPrint first execute this program, statement by        *)
(* statement (the classes are the ones above):                             *)
(*                                                                         *)
(*    class Counter: ...                 x = Counter()                     *)
(*    vn = None                          p = Point(1, 2)                   *)
(*    v0 = 0                             q = Point(2, 2)                   *)
(*    v1 = 1                             w = Loose()                       *)
(*    ve = ''                            program_name = "Classes test"     *)
(*    va = 'a'                           origin = Point(0, 0)              *)
(*    vb = 'b'                           far_far_away = Point(10000, 50000)*)
(*    vt = True                                                            *)
(*    vf = False                                                           *)
(*                                                                         *)
(* SpecValue then evaluates one expression over these names; SpecPrint     *)
(* executes up to MaxPrints print statements.  The run's objects are at    *)
(* any of the bases of AddrBases.                                          *)
(***************************************************************************)
MaxPrints == 2      \* SpecPrint: print statements executed

SetupProgram ==
    << ClassDefinition("Counter"),
       Assign("vn", Const(NoneV)),
       Assign("v0", Const(NumberV(0))),
       Assign("v1", Const(NumberV(1))),
       Assign("ve", Const(StringV(""))),
       Assign("va", Const(StringV("a"))),
       Assign("vb", Const(StringV("b"))),
       Assign("vt", Const(BoolV(TRUE))),
       Assign("vf", Const(BoolV(FALSE))),
       Assign("x", NewInstance(201, "Counter", <<>>)),
       Assign("p", NewInstance(202, "Point", <<Const(NumberV(1)), Const(NumberV(2))>>)),
       Assign("q", NewInstance(203, "Point", <<Const(NumberV(2)), Const(NumberV(2))>>)),
       Assign("w", NewInstance(204, "Loose", <<>>)),
       Assign("program_name", Const(StringV("Classes test"))),
       Assign("origin", NewInstance(205, "Point", <<Const(NumberV(0)), Const(NumberV(0))>>)),
       Assign("far_far_away",
              NewInstance(206, "Point", <<Const(NumberV(10000)), Const(NumberV(50000))>>)) >>

\* the names an expression of SpecValue reads
Operands == {"vn", "v0", "v1", "ve", "va", "vb", "vt", "vf", "Counter", "x", "p", "q", "w"}

Comparators == {"Equal", "NotEqual", "Less", "Greater", "LessOrEqual", "GreaterOrEqual"}

\* one more top-level statement, node, is executed
RunNode(node) ==
    /\ status = "running"
    /\ \E r \in {Execute(node, [clo |-> closure, heap |-> heap, trace |-> <<>>, depth |-> 0,
                                 out |-> output, base |-> addr_base])} :
          /\ closure' = r.clo
          /\ heap' = r.heap
          /\ status' = CASE r.sig = "ok" -> "running"
                         [] r.sig = "return" -> "return_escaped"
                         [] r.sig = "error" -> "error"
                         [] OTHER -> "ub"
          /\ last' = [stmt |-> 0, sig |-> r.sig, val |-> r.val, msg |-> r.msg, trace |-> r.trace]
          /\ created' = created \o NewEvents(r.trace)
          /\ output' = r.out
    /\ prog' = Append(prog, node)
    /\ pc' = pc + 1
    /\ UNCHANGED <<classes, aliases, addr_base>>
    /\ UNCHANGED lexVars

\* the next statement of the setup program
ExecSetup ==
    pc < Len(SetupProgram) /\ RunNode(SetupProgram[pc + 1])

SetupDone == pc = Len(SetupProgram)

\* ---- SpecValue ----
ExecComparison ==
    \E cmp \in Comparators : \E a \in Operands : \E b \in Operands :
        SetupDone /\ RunNode(Comparison(cmp, Var(<<a>>), Var(<<b>>)))

ExecNot ==
    \E a \in Operands : \E node \in {Not(Var(<<a>>)), Not(Not(Var(<<a>>)))} :
        SetupDone /\ RunNode(node)

ExecStringify ==
    \E a \in Operands : \E node \in {Stringify(Var(<<a>>)), Stringify(Stringify(Var(<<a>>)))} :
        SetupDone /\ RunNode(node)

ExecIfElse ==
    \E a \in Operands :
        SetupDone /\ RunNode(IfElse(Var(<<a>>), Assign("t", Const(NumberV(1))),
                                             Assign("t", Const(NumberV(0)))))

NextValue == ExecSetup \/ ExecComparison \/ ExecNot \/ ExecStringify \/ ExecIfElse

\* ---- SpecPrint ----
PrintStmt(k) ==
    CASE k = 1 -> PrintNode(<<Const(NumberV(57))>>)
      [] k = 2 -> PrintNode(<<Const(NumberV(10)), Const(NumberV(24)), Const(NumberV(-8))>>)
      [] k = 3 -> PrintNode(<<Const(StringV("hello"))>>)
      [] k = 4 -> PrintNode(<<Const(BoolV(TRUE)), Const(BoolV(FALSE))>>)
      [] k = 5 -> PrintNode(<<>>)
      [] k = 6 -> PrintNode(<<Const(NoneV)>>)
      [] k = 7 -> PrintNode(<<Var(<<"program_name">>), Var(<<"origin">>), Var(<<"far_far_away">>),
                              MethodCall(Var(<<"origin">>), "SetX", <<Const(NumberV(1))>>)>>)
      [] k = 8 -> PrintNode(<<Var(<<"x">>)>>)
      [] k = 9 -> PrintNode(<<Const(NumberV(1)), Var(<<"nosuch">>)>>)
      [] OTHER -> PrintNode(<<Var(<<"vn">>), Var(<<"Counter">>), Var(<<"p">>)>>)

PrintStmts == 1..10

ExecPrint ==
    \E k \in PrintStmts :
        /\ pc >= Len(SetupProgram)
        /\ pc < Len(SetupProgram) + MaxPrints
        /\ RunNode(PrintStmt(k))

NextPrint == ExecSetup \/ ExecPrint

\* ---- SpecCall ----
\* after the setup program: up to MaxCalls - 1 field assignments "a.f = x",
\* then one statement: a dotted name, a method call, an expression whose
\* operands are method calls
MaxCalls == 2       \* SpecCall: statements executed after the setup program

\* only field assignments have been executed since the setup program
CallsLeft ==
    /\ pc >= Len(SetupProgram)
    /\ pc < Len(SetupProgram) + MaxCalls
    /\ \A i \in (Len(SetupProgram) + 1)..Len(prog) : prog[i].node = "FieldAssignment"

ExecFieldAssignmentOn ==
    \E a \in Operands :
        CallsLeft /\ RunNode(FieldAssign(<<a>>, "f", Var(<<"x">>)))

\* the dotted names: a name of the program or none, then up to two field names
Paths ==
    LET heads == Operands \cup {"nosuch"}
        fields == {"f", "value", "nosuch"}
    IN { <<a>> : a \in heads }
       \cup { <<a, b>> : a \in heads, b \in fields }
       \cup { <<a, b, c>> : a \in heads, b \in fields, c \in fields }

ExecVariableValue ==
    \E ids \in Paths :
        CallsLeft /\ RunNode(Var(ids))

ExecMethodCallOn ==
    \E a \in Operands : \E args \in {<<>>, <<MethodCall(Var(<<"x">>), "inc", <<>>)>>} :
        CallsLeft /\ RunNode(MethodCall(Var(<<a>>), "add", args))

ProbeNodeId == 301  \* address of the instance owned by the NewInstance node Probe()

XInc == MethodCall(Var(<<"x">>), "inc", <<>>)

XAdd == MethodCall(Var(<<"x">>), "add", <<>>)

\*   1  Probe().peek()              5  Point(x.inc(), x.add())
\*   2  Probe().shadow(v0)          6  x.inc() + x.add()
\*   3  Probe().echo(va, vb)        7  x.inc() == x.add()
\*   4  Probe().echo(x.inc(), x.add())
CallStmt(k) ==
    CASE k = 1 -> MethodCall(NewInstance(ProbeNodeId, "Probe", <<>>), "peek", <<>>)
      [] k = 2 -> MethodCall(NewInstance(ProbeNodeId, "Probe", <<>>), "shadow", <<Var(<<"v0">>)>>)
      [] k = 3 -> MethodCall(NewInstance(ProbeNodeId, "Probe", <<>>), "echo",
                             <<Var(<<"va">>), Var(<<"vb">>)>>)
      [] k = 4 -> MethodCall(NewInstance(ProbeNodeId, "Probe", <<>>), "echo", <<XInc, XAdd>>)
      [] k = 5 -> NewInstance(ProbeNodeId + 1, "Point", <<XInc, XAdd>>)
      [] k = 6 -> Add(XInc, XAdd)
      [] OTHER -> Comparison("Equal", XInc, XAdd)

ExecCallStmt ==
    \E k \in 1..7 :
        CallsLeft /\ RunNode(CallStmt(k))

NextCall ==
    ExecSetup \/ ExecFieldAssignmentOn \/ ExecVariableValue \/ ExecMethodCallOn \/ ExecCallStmt

(***************************************************************************)
(* SpecLex: the lexer.  Characters are one-character strings, character    *)
(* strings are sequences of them.                                          *)
(***************************************************************************)
MaxInputLen == 3    \* SpecLex: length of the free-form inputs
MaxLines == 3       \* SpecLex: lines of the indented inputs
MaxSpaces == 2      \* SpecLex: leading spaces of a line of the indented inputs

IntMax == 2147483647

INDENT_SPACES_COUNT == 2

EOFChar == "EOF"    \* traits_type::eof(), what peek() returns when there is no character

Digits == {"0", "1", "2", "3", "4", "5", "6", "7", "8", "9"}

Letters ==
    {"a", "b", "c", "d", "e", "f", "g", "h", "i", "j", "k", "l", "m",
     "n", "o", "p", "q", "r", "s", "t", "u", "v", "w", "x", "y", "z",
     "A", "B", "C", "D", "E", "F", "G", "H", "I", "J", "K", "L", "M",
     "N", "O", "P", "Q", "R", "S", "T", "U", "V", "W", "X", "Y", "Z"}

\* std::ispunct in the C locale (the grave accent, which no input here uses, is left out)
Puncts ==
    {"!", "\"", "#", "$", "%", "&", "'", "(", ")", "*", "+", ",", "-", ".", "/",
     ":", ";", "<", "=", ">", "?", "@", "[", "\\", "]", "^", "_", "{", "|", "}", "~"}

IsDigit(c) == c \in Digits

IsAlpha(c) == c \in Letters

IsAlnum(c) == c \in Letters \cup Digits

IsPunct(c) == c \in Puncts

\* the characters inputs are made of
Alphabet == {"\n", " ", "a", "1", "#", "=", "\"", "\\", "\t"}

\* ---- std::istream over the input ----
Good(st) == ~st.eofbit /\ ~st.failbit

\* rdstate() == std::ios_base::eofbit
RdstateIsEofbit(st) == st.eofbit /\ ~st.failbit

\* input.get(c): ok is the stream's truth value after the call
Get(st) ==
    IF ~Good(st) THEN [ok |-> FALSE, c |-> EOFChar, st |-> [st EXCEPT !.failbit = TRUE]]
    ELSE IF st.pos < Len(input)
    THEN [ok |-> TRUE, c |-> input[st.pos + 1], st |-> [st EXCEPT !.pos = @ + 1]]
    ELSE [ok |-> FALSE, c |-> EOFChar, st |-> [st EXCEPT !.eofbit = TRUE, !.failbit = TRUE]]

\* the values a char variable may hold after input.get(c): the character read,
\* or, when get failed, whatever the uninitialized variable held
Read(g) == IF g.ok THEN {g.c} ELSE Alphabet

\* input.peek()
Peek(st) ==
    IF ~Good(st) THEN [c |-> EOFChar, st |-> [st EXCEPT !.failbit = TRUE]]
    ELSE IF st.pos < Len(input) THEN [c |-> input[st.pos + 1], st |-> st]
    ELSE [c |-> EOFChar, st |-> [st EXCEPT !.eofbit = TRUE]]

\* input.putback(c): clears eofbit, then backs up one character unless the
\* stream has failed
Putback(st) ==
    LET s1 == [st EXCEPT !.eofbit = FALSE]
    IN IF s1.failbit THEN s1
       ELSE IF s1.pos > 0 THEN [s1 EXCEPT !.pos = @ - 1]
       ELSE [s1 EXCEPT !.failbit = TRUE]

\* ---- tokens ----
Tok(type) == [type |-> type, value |-> <<>>, num |-> 0]

NumberTok(num) == [type |-> "Number", value |-> <<>>, num |-> num]

IdTok(value) == [type |-> "Id", value |-> value, num |-> 0]

CharTok(c) == [type |-> "Char", value |-> <<c>>, num |-> 0]

StringTok(value) == [type |-> "String", value |-> value, num |-> 0]

ParseKeyword(str) ==
    CASE str = <<"c", "l", "a", "s", "s">> -> "Class"
      [] str = <<"r", "e", "t", "u", "r", "n">> -> "Return"
      [] str = <<"i", "f">> -> "If"
      [] str = <<"e", "l", "s", "e">> -> "Else"
      [] str = <<"d", "e", "f">> -> "Def"
      [] str = <<"p", "r", "i", "n", "t">> -> "Print"
      [] str = <<"o", "r">> -> "Or"
      [] str = <<"N", "o", "n", "e">> -> "None"
      [] str = <<"a", "n", "d">> -> "And"
      [] str = <<"n", "o", "t">> -> "Not"
      [] str = <<"T", "r", "u", "e">> -> "True"
      [] str = <<"F", "a", "l", "s", "e">> -> "False"
      [] OTHER -> ""

\* C++ integer division truncates toward zero
TruncDiv(a, b) == IF a >= 0 THEN a \div b ELSE -((-a) \div b)

Abs(i) == IF i >= 0 THEN i ELSE -i

DigitValue(c) ==
    CASE c = "0" -> 0 [] c = "1" -> 1 [] c = "2" -> 2 [] c = "3" -> 3 [] c = "4" -> 4
      [] c = "5" -> 5 [] c = "6" -> 6 [] c = "7" -> 7 [] c = "8" -> 8 [] OTHER -> 9

RECURSIVE StoI(_, _)
\* std::stoi on a string of digits, acc the value of the digits already read
StoI(str, acc) ==
    IF str = <<>> THEN acc ELSE StoI(Tail(str), acc * 10 + DigitValue(Head(str)))

\* ---- the sub-parsers of ParseTokens ----
RECURSIVE CountSpaces(_, _)
\* while (input.get(current_char) && current_char == ' ') ++spaces_counts;
CountSpaces(st, n) ==
    LET g == Get(st)
    IN IF g.ok /\ g.c = " " THEN CountSpaces(g.st, n + 1) ELSE [st |-> g.st, n |-> n]

\* mutant: a blank line or a comment line sets the tracked level too
ParseIndent_BlankUpdates(st, container, begin) ==
    LET cs == CountSpaces(st, 0)
        s1 == IF RdstateIsEofbit(cs.st) THEN cs.st ELSE Putback(cs.st)
        pk == Peek(s1)
        indents_count == TruncDiv(cs.n - begin, INDENT_SPACES_COUNT)
        indent_type == IF indents_count > 0 THEN Tok("Indent") ELSE Tok("Dedent")
    IN IF pk.c \in {"\n", "#"}
       THEN [st |-> pk.st, container |-> container, begin |-> cs.n]
       ELSE [st |-> pk.st,
             container |-> container \o [i \in 1..Abs(indents_count) |-> indent_type],
             begin |-> cs.n]

ParseIndent(st, container, begin) ==
    LET cs == CountSpaces(st, 0)
        s1 == IF RdstateIsEofbit(cs.st) THEN cs.st ELSE Putback(cs.st)
        pk == Peek(s1)
        indents_count == TruncDiv(cs.n - begin, INDENT_SPACES_COUNT)
        indent_type == IF indents_count > 0 THEN Tok("Indent") ELSE Tok("Dedent")
    IN IF pk.c \in {"\n", "#"}
       THEN [st |-> pk.st, container |-> container, begin |-> begin]
       ELSE [st |-> pk.st,
             container |-> container \o [i \in 1..Abs(indents_count) |-> indent_type],
             begin |-> cs.n]

RECURSIVE ScanWhile(_, _, _)
\* while (input.get(c)) { if (c in Chars) str.push_back(c); else { putback(c); break; } }
ScanWhile(st, str, Chars) ==
    LET g == Get(st)
    IN IF ~g.ok THEN [st |-> g.st, str |-> str]
       ELSE IF g.c \in Chars THEN ScanWhile(g.st, Append(str, g.c), Chars)
       ELSE [st |-> Putback(g.st), str |-> str]

Unescape(c) ==
    CASE c = "n" -> "\n" [] c = "t" -> "\t" [] c = "r" -> "\r" [] OTHER -> c

RECURSIVE ScanString(_, _, _)
\* the istreambuf_iterator loop of ParseStrings: reads the buffer from position
\* p without touching the stream's state flags
ScanString(p, quote_type, str) ==
    IF p >= Len(input) THEN [pos |-> p, str |-> str, err |-> ""]
    ELSE LET current_char == input[p + 1]
         IN IF current_char = quote_type THEN [pos |-> p + 1, str |-> str, err |-> ""]
            ELSE IF current_char = "\\"
            THEN IF p + 1 >= Len(input)
                 THEN [pos |-> p + 1, str |-> str, err |-> "String parsing error"]
                 ELSE IF input[p + 2] \in {"n", "t", "r", "\"", "'", "\\"}
                 THEN ScanString(p + 2, quote_type, Append(str, Unescape(input[p + 2])))
                 ELSE [pos |-> p + 1, str |-> str, err |-> "Unrecognized escape sequence"]
            ELSE IF current_char \in {"\n", "\r"}
            THEN [pos |-> p, str |-> str, err |-> "Unexpected end of line"]
            ELSE ScanString(p + 1, quote_type, Append(str, current_char))

RECURSIVE GetLineEnd(_)
\* std::getline(input, comment, '\n'): where the read position ends up; the
\* delimiter is extracted
GetLineEnd(p) ==
    IF p >= Len(input) THEN [pos |-> p, eof |-> TRUE]
    ELSE IF input[p + 1] = "\n" THEN [pos |-> p + 1, eof |-> FALSE]
    ELSE GetLineEnd(p + 1)

GetLine(st) ==
    IF ~Good(st) THEN [st EXCEPT !.failbit = TRUE]
    ELSE LET e == GetLineEnd(st.pos)
         IN [pos |-> e.pos, eofbit |-> e.eof, failbit |-> (e.pos = st.pos)]

SkipComment(st) ==
    LET g == Get(st)
    IN IF g.ok /\ g.c = "#"
       THEN LET s1 == GetLine(g.st)
            IN IF RdstateIsEofbit(s1) THEN s1 ELSE Putback(s1)
       ELSE Putback(g.st)

RECURSIVE SkipSpacesFrom(_)
\* while (input.peek() == ' ') input.get();
SkipSpacesFrom(st) ==
    LET pk == Peek(st)
    IN IF pk.c = " " THEN SkipSpacesFrom(Get(pk.st).st) ELSE pk.st

\* ---- the steps of Lexer::ParseTokens ----
Goto(next) ==
    lexPc' = next /\ UNCHANGED evalVars /\ UNCHANGED <<input, tokens_iterator_, returned>>

\* return tokens_.begin(); and the constructor's tokens_iterator_ = ParseTokens(input)
ReturnBegin ==
    /\ lexPc' = "done"
    /\ tokens_iterator_' = 1
    /\ UNCHANGED evalVars
    /\ UNCHANGED <<input, returned>>

\* while (input.get(current_char)) { input.putback(current_char); ...
ParseTokensLoop ==
    /\ lexPc = "loop"
    /\ Get(stream).ok
    /\ stream' = Putback(Get(stream).st)
    /\ Goto("ParseNewLine")
    /\ UNCHANGED <<tokens, begin_spaces_count_, lexErr>>

\* mutant: no Newline is put before the Eof
ParseTokensEnd_NoNewline ==
    /\ lexPc = "loop"
    /\ ~Get(stream).ok
    /\ stream' = Get(stream).st
    /\ tokens' = Append(tokens, Tok("Eof"))
    /\ ReturnBegin
    /\ UNCHANGED <<begin_spaces_count_, lexErr>>

\* ... } the closing Newline and Eof
ParseTokensEnd ==
    /\ lexPc = "loop"
    /\ ~Get(stream).ok
    /\ stream' = Get(stream).st
    /\ tokens' = IF /\ tokens # <<>>
                    /\ tokens[Len(tokens)].type # "Newline"
                    /\ tokens[Len(tokens)].type # "Dedent"
                 THEN tokens \o <<Tok("Newline"), Tok("Eof")>>
                 ELSE Append(tokens, Tok("Eof"))
    /\ ReturnBegin
    /\ UNCHANGED <<begin_spaces_count_, lexErr>>

\* mutant: the Newline is emitted whatever the last token is
ParseNewLine_Always ==
    /\ lexPc = "ParseNewLine"
    /\ LET g == Get(stream)
       IN \E current_char \in Read(g) :
            IF current_char = "\n"
            THEN LET r == ParseIndent(g.st, Append(tokens, Tok("Newline")), begin_spaces_count_)
                 IN /\ stream' = r.st
                    /\ tokens' = r.container
                    /\ begin_spaces_count_' = r.begin
            ELSE /\ stream' = Putback(g.st)
                 /\ UNCHANGED <<tokens, begin_spaces_count_>>
    /\ Goto("ParseStrings")
    /\ UNCHANGED lexErr

ParseNewLine ==
    /\ lexPc = "ParseNewLine"
    /\ LET g == Get(stream)
       IN \E current_char \in Read(g) :
            IF current_char = "\n"
            THEN LET container == IF tokens # <<>> /\ tokens[Len(tokens)].type # "Newline"
                                  THEN Append(tokens, Tok("Newline"))
                                  ELSE tokens
                     r == ParseIndent(g.st, container, begin_spaces_count_)
                 IN /\ stream' = r.st
                    /\ tokens' = r.container
                    /\ begin_spaces_count_' = r.begin
            ELSE /\ stream' = Putback(g.st)
                 /\ UNCHANGED <<tokens, begin_spaces_count_>>
    /\ Goto("ParseStrings")
    /\ UNCHANGED lexErr

ParseStrings ==
    /\ lexPc = "ParseStrings"
    /\ LET g == Get(stream)
       IN \E quote_type \in Read(g) :
            IF quote_type \in {"'", "\""}
            THEN LET r == ScanString(g.st.pos, quote_type, <<>>)
                 IN IF r.err # ""
                    THEN /\ lexErr' = r.err
                         /\ stream' = [g.st EXCEPT !.pos = r.pos]
                         /\ Goto("error")
                         /\ UNCHANGED tokens
                    ELSE /\ tokens' = Append(tokens, StringTok(r.str))
                         /\ stream' = [g.st EXCEPT !.pos = r.pos]
                         /\ Goto("ParseId")
                         /\ UNCHANGED lexErr
            ELSE /\ stream' = Putback(g.st)
                 /\ Goto("ParseId")
                 /\ UNCHANGED <<tokens, lexErr>>
    /\ UNCHANGED begin_spaces_count_

ParseId ==
    /\ lexPc = "ParseId"
    /\ LET pk == Peek(stream)
       IN IF IsAlpha(pk.c) \/ pk.c = "_"
          THEN LET r == ScanWhile(pk.st, <<>>, Letters \cup Digits \cup {"_"})
                   check_on_keyword == ParseKeyword(r.str)
               IN /\ stream' = r.st
                  /\ tokens' = Append(tokens, IF check_on_keyword # ""
                                              THEN Tok(check_on_keyword)
                                              ELSE IdTok(r.str))
          ELSE /\ stream' = pk.st
               /\ UNCHANGED tokens
    /\ Goto("ParseDoubleChars")
    /\ UNCHANGED <<begin_spaces_count_, lexErr>>

DoubleCharToken(current_char) ==
    CASE current_char = "=" -> "Eq"
      [] current_char = "!" -> "NotEq"
      [] current_char = ">" -> "GreaterOrEq"
      [] current_char = "<" -> "LessOrEq"
      [] OTHER -> ""

ParseDoubleChars ==
    /\ lexPc = "ParseDoubleChars"
    /\ LET g == Get(stream)
           pk == Peek(g.st)
       IN \E current_char \in Read(g) :
            IF DoubleCharToken(current_char) # "" /\ pk.c = "="
            THEN /\ stream' = Get(pk.st).st
                 /\ tokens' = Append(tokens, Tok(DoubleCharToken(current_char)))
            ELSE /\ stream' = Putback(pk.st)
                 /\ UNCHANGED tokens
    /\ Goto("ParseChars")
    /\ UNCHANGED <<begin_spaces_count_, lexErr>>

ParseChars ==
    /\ lexPc = "ParseChars"
    /\ LET pk == Peek(stream)
       IN IF IsPunct(pk.c)
          THEN IF pk.c = "#"
               THEN /\ stream' = SkipComment(pk.st)
                    /\ UNCHANGED tokens
               ELSE /\ stream' = Get(pk.st).st
                    /\ tokens' = Append(tokens, CharTok(Get(pk.st).c))
          ELSE /\ stream' = pk.st
               /\ UNCHANGED tokens
    /\ Goto("ParseNumbers")
    /\ UNCHANGED <<begin_spaces_count_, lexErr>>

ParseNumbers ==
    /\ lexPc = "ParseNumbers"
    /\ LET pk == Peek(stream)
       IN IF IsDigit(pk.c)
          THEN LET r == ScanWhile(pk.st, <<>>, Digits)
                   num == StoI(r.str, 0)
               IN /\ stream' = r.st
                  /\ IF num > IntMax
                     THEN /\ lexErr' = "stoi"
                          /\ Goto("error")
                          /\ UNCHANGED tokens
                     ELSE /\ tokens' = Append(tokens, NumberTok(num))
                          /\ Goto("SkipSpaces")
                          /\ UNCHANGED lexErr
          ELSE /\ stream' = pk.st
               /\ Goto("SkipSpaces")
               /\ UNCHANGED <<tokens, lexErr>>
    /\ UNCHANGED begin_spaces_count_

SkipSpaces ==
    /\ lexPc = "SkipSpaces"
    /\ stream' = SkipSpacesFrom(stream)
    /\ Goto("loop")
    /\ UNCHANGED <<tokens, begin_spaces_count_, lexErr>>

\* ---- the token cursor of a constructed Lexer ----
\* Lexer::CurrentToken
CurrentToken == tokens[tokens_iterator_]

\* mutant: the end test compares the cursor itself with tokens_.end()
NextToken_PastEnd ==
    /\ lexPc = "done"
    /\ IF tokens_iterator_ = Len(tokens) + 1
       THEN /\ returned' = Tok("Eof")
            /\ UNCHANGED tokens_iterator_
       ELSE /\ tokens_iterator_' = tokens_iterator_ + 1
            /\ returned' = IF tokens_iterator_ < Len(tokens)
                           THEN tokens[tokens_iterator_ + 1]
                           ELSE Tok("Eof")
    /\ UNCHANGED evalVars
    /\ UNCHANGED <<input, stream, tokens, begin_spaces_count_, lexPc, lexErr>>

\* Lexer::NextToken
NextToken ==
    /\ lexPc = "done"
    /\ IF tokens_iterator_ + 1 = Len(tokens) + 1
       THEN /\ returned' = Tok("Eof")
            /\ UNCHANGED tokens_iterator_
       ELSE /\ tokens_iterator_' = tokens_iterator_ + 1
            /\ returned' = tokens[tokens_iterator_ + 1]
    /\ UNCHANGED evalVars
    /\ UNCHANGED <<input, stream, tokens, begin_spaces_count_, lexPc, lexErr>>

NextLex ==
    \/ NextToken
    \/ ParseTokensLoop
    \/ ParseTokensEnd
    \/ ParseNewLine
    \/ ParseStrings
    \/ ParseId
    \/ ParseDoubleChars
    \/ ParseChars
    \/ ParseNumbers
    \/ SkipSpaces

\* ---- the inputs ----
ShortInputs == SeqsUpTo(Alphabet, MaxInputLen)

Spaces(k) == [i \in 1..k |-> " "]

\* a line: leading spaces, an identifier or nothing, the line break
Lines == { Spaces(k) \o body \o <<"\n">> : k \in 0..MaxSpaces, body \in {<<>>, <<"a">>} }

RECURSIVE Flatten(_)
Flatten(ls) == IF ls = <<>> THEN <<>> ELSE Head(ls) \o Flatten(Tail(ls))

IndentInputs == { Flatten(ls) : ls \in SeqsUpTo(Lines, MaxLines) }

(***************************************************************************)
(* Initial states and specifications.                                      *)
(***************************************************************************)
InitEval ==
    /\ classes = EmptyMap
    /\ closure = EmptyMap
    /\ heap = EmptyMap
    /\ status = "running"
    /\ pc = 0
    /\ last = [stmt |-> 0, sig |-> "ok", val |-> NoneV, msg |-> "", trace |-> <<>>]
    /\ created = <<>>
    /\ aliases = {}
    /\ output = ""
    /\ prog = <<>>
    /\ addr_base = FirstBase

\* a Lexer under construction: nothing read, no token yet
InitStream(chars) ==
    /\ input = chars
    /\ stream = [pos |-> 0, eofbit |-> FALSE, failbit |-> FALSE]
    /\ tokens = <<>>
    /\ begin_spaces_count_ = 0
    /\ lexPc = "loop"
    /\ lexErr = ""
    /\ tokens_iterator_ = 0
    /\ returned = Tok("")

Init == InitEval /\ InitStream(<<>>)

InitLex == InitEval /\ \E chars \in ShortInputs \cup IndentInputs : InitStream(chars)

SpecClass == Init /\ [][NextClass]_vars

SpecEval == Init /\ [][NextEval]_vars

\* an interpreter about to execute a program, its objects at any of the bases
InitValue ==
    /\ classes = EmptyMap
    /\ closure = EmptyMap
    /\ heap = EmptyMap
    /\ status = "running"
    /\ pc = 0
    /\ last = [stmt |-> 0, sig |-> "ok", val |-> NoneV, msg |-> "", trace |-> <<>>]
    /\ created = <<>>
    /\ aliases = {}
    /\ output = ""
    /\ prog = <<>>
    /\ addr_base \in AddrBases
    /\ InitStream(<<>>)

SpecValue == InitValue /\ [][NextValue]_vars

SpecPrint == InitValue /\ [][NextPrint]_vars

SpecCall == InitValue /\ [][NextCall]_vars

SpecLex == InitLex /\ [][NextLex]_vars

\* ParseTokens is one sequential run: it always takes its next step
SpecLexFair == InitLex /\ [][NextLex]_vars /\ WF_vars(NextLex)


(***************************************************************************)
(* Claims about the evaluator (SpecEval) and the class model (SpecClass).  *)
(***************************************************************************)
Trace == last.trace

\* what VariableValue(ids) yields in closure clo over heap h
ReadIn(clo, h, ids) == WalkPath(ids, 1, clo, h)

HasEvent(ev) == \E i \in 1..Len(Trace) : Trace[i].ev = ev

\* C1: in And(lhs, rhs), when the value of lhs is falsy, rhs is not evaluated
\* and the result is Bool(false).
C1_AndShortCircuit ==
    /\ \A i \in 1..Len(Trace) :
          (Trace[i].ev = "and_lhs" /\ ~IsTrue(Trace[i].val))
              => ~(i < Len(Trace) /\ Trace[i + 1].ev = "and_rhs")
    /\ \A i \in 1..Len(Trace) :
          (Trace[i].ev = "and" /\ \E j \in 1..i : Trace[j].ev = "and_lhs" /\ ~IsTrue(Trace[j].val))
              => Trace[i].val = BoolV(FALSE)

\* C2: in Or(lhs, rhs), when the value of lhs is truthy, rhs is not evaluated
\* and the result is Bool(true).
C2_OrShortCircuit ==
    /\ \A i \in 1..Len(Trace) :
          (Trace[i].ev = "or_lhs" /\ IsTrue(Trace[i].val))
              => ~(i < Len(Trace) /\ Trace[i + 1].ev = "or_rhs")
    /\ \A i \in 1..Len(Trace) :
          (Trace[i].ev = "or" /\ \E j \in 1..i : Trace[j].ev = "or_lhs" /\ IsTrue(Trace[j].val))
              => Trace[i].val = BoolV(TRUE)

\* C3: every evaluation of a NewInstance node yields a fresh ClassInstance: an
\* object no earlier evaluation returned (so a write through one never reaches
\* another), whose field scope is empty before __init__ runs.
C3_NewInstanceFresh ==
    /\ \A i \in 1..Len(created) : \A j \in 1..Len(created) :
          i < j => created[i].ref # created[j].ref
    /\ \A i \in 1..Len(created) : created[i].empty

\* the instance named by `name` had its counter incremented by the step
CounterBumped(name) ==
    /\ ReadIn(closure, heap, <<name, "value">>).found
    /\ ReadIn(closure', heap', <<name, "value">>).found
    /\ ReadIn(closure', heap', <<name, "value">>).val.n
           = ReadIn(closure, heap, <<name, "value">>).val.n + 1

\* C4: class instances have reference semantics: after y = x, and after passing
\* an instance as an actual argument, a field write made through one alias is
\* read through every other alias.
C4_ReferenceSemantics ==
    [][ /\ \A p \in aliases' : \A f \in {"value", "t"} :
              ReadIn(closure', heap', <<p[1], f>>) = ReadIn(closure', heap', <<p[2], f>>)
        /\ (last'.stmt = 5 /\ last'.sig = "ok")
              => \A p \in aliases' :
                    p[1] = "y" => ReadIn(closure', heap', <<p[2], "value">>).val = NumberV(5)
        /\ (last'.stmt = 6 /\ last'.sig = "ok") => CounterBumped("x")
        /\ (last'.stmt = 7 /\ last'.sig = "ok") => CounterBumped("y")
      ]_vars

C4_Witness ==
    /\ <<"y", "x">> \in aliases
    /\ last.stmt = 5
    /\ last.sig = "ok"
    /\ ReadIn(closure, heap, <<"x", "value">>).val = NumberV(5)

\* the method GetMethod is claimed to return: the last one named nm in c's own
\* list, else what the parent resolves, else null
RECURSIVE Resolve(_, _)
Resolve(c, nm) ==
    IF nm \in MethodNamesOf(classes[c].methods)
    THEN [owner |-> c, idx |-> LastIndex(classes[c].methods, nm)]
    ELSE IF classes[c].parent = NoParent THEN NullMethod
    ELSE Resolve(classes[c].parent, nm)

\* C5: GetMethod(name) on a class returns its own last method of that name,
\* otherwise what GetMethod returns on its parent (at any depth), and null only
\* when no ancestor defines the name.
C5_GetMethodWalksAncestors ==
    \A c \in DOMAIN classes : \A nm \in DeclMethodNames :
        GetMethod(classes[c], nm) = Resolve(c, nm)

CallStmts == {4, 6, 7, 8, 12, 13, 14}

FieldOf(name, f) == ReadIn(closure, heap, <<name, f>>).val

\* C6: inside a method body a Return at any depth of IfElse and Compound skips
\* every statement up to the method boundary and its value is the method's
\* result; a body that ends without a Return yields None.
C6_ReturnEndsMethod ==
    /\ \A i \in 1..Len(Trace) :
          (Trace[i].ev = "return" /\ Trace[i].depth >= 1)
              => /\ i < Len(Trace)
                 /\ Trace[i + 1].ev = "catch"
                 /\ Trace[i + 1].depth = Trace[i].depth
                 /\ Trace[i + 1].val = Trace[i].val
    /\ (last.stmt \in CallStmts /\ last.sig = "ok")
          => /\ Trace[Len(Trace)].ev \in {"catch", "body_end"}
             /\ Trace[Len(Trace)].ev = "catch" => last.val = Trace[Len(Trace)].val
             /\ Trace[Len(Trace)].ev = "body_end" => last.val = NoneV
    /\ (last.stmt = 12 /\ last.sig = "ok") => (last.val = NumberV(7) /\ FieldOf("d", "t") = NumberV(2))
    /\ (last.stmt = 13 /\ last.sig = "ok") => (last.val = NoneV /\ FieldOf("d", "t") = NumberV(6))
    /\ (last.stmt = 14 /\ last.sig = "ok")
          => /\ last.val = NumberV(2)
             /\ FieldOf("d", "u") = NumberV(9)
             /\ FieldOf("d", "w") = NumberV(1)

C6_Witness ==
    /\ last.stmt = 12
    /\ last.sig = "ok"
    /\ last.val = NumberV(7)
    /\ \E i \in 1..Len(Trace) : Trace[i].ev = "return" /\ Trace[i].depth = 1

\* C7: no Return signal propagates out of the top-level program node: every
\* Return raised is caught by the nearest enclosing MethodBody.
C7_ReturnNeverEscapes ==
    /\ status # "return_escaped"
    /\ \A i \in 1..Len(Trace) :
          Trace[i].ev = "return" => (i < Len(Trace) /\ Trace[i + 1].ev = "catch")

\* the call statement k, executed now, names an instance whose class does not
\* resolve the method, or resolves it to a method of another arity
Unresolved(k) ==
    LET node == TopStmt(k, pc + 1)
        w == ReadIn(closure, heap, node.object.ids)
        p == GetMethod(ClassTable[heap[w.val.n].cls], node.method_name)
    IN /\ w.found
       /\ w.val.kind = "Instance"
       /\ \A i \in 1..Len(node.args) :
             node.args[i].node = "Const" \/ ReadIn(closure, heap, node.args[i].ids).found
       /\ (p = NullMethod \/ Len(MethodAt(p).formal_params) # Len(node.args))

\* C8: ClassInstance::Call with a method the class does not resolve, or resolves
\* with another number of formal parameters, raises "Not implemented" without
\* executing a method body and without changing any instance's fields.
C8_CallNotImplemented ==
    [][ \A k \in MethodCallStmts :
            (status = "running" /\ pc' = pc + 1 /\ last'.stmt = k /\ Unresolved(k))
                => /\ last'.sig = "error"
                   /\ last'.msg = "Not implemented"
                   /\ status' = "error"
                   /\ heap' = heap
                   /\ \A i \in 1..Len(last'.trace) : last'.trace[i].ev # "body_enter"
      ]_vars

C8_Witness ==
    /\ last.stmt \in {16, 17}
    /\ status = "error"
    /\ last.msg = "Not implemented"
    /\ HasEvent("call")

(***************************************************************************)
(* Claims about the lexer (SpecLex, SpecLexFair).                          *)
(***************************************************************************)
StringErrors == {"String parsing error", "Unrecognized escape sequence", "Unexpected end of line"}

\* C9: lexer totality: on every input without an unterminated string or a bad
\* escape, tokenization terminates with a token sequence ending in Eof; it
\* neither loops forever nor aborts with an error.
C9_LexerTotality ==
    <>( \/ /\ lexPc = "done"
           /\ tokens # <<>>
           /\ tokens[Len(tokens)].type = "Eof"
        \/ /\ lexPc = "error"
           /\ lexErr \in StringErrors )

CountOf(type, n) == Cardinality({ i \in 1..n : tokens[i].type = type })

\* C10: indent/dedent balance: at every prefix of the token sequence the lexer
\* produces, the number of Dedent tokens does not exceed the number of Indent
\* tokens, whatever the numbers of leading spaces (odd counts included).
C10_IndentDedentBalance ==
    \A n \in 0..Len(tokens) : CountOf("Dedent", n) <= CountOf("Indent", n)

(***************************************************************************)
(* Claims about SpecPrint.  last.stmt = 0 there; the statement executed    *)
(* last is the last element of prog.                                       *)
(***************************************************************************)
\* the statement executed last is the print statement PrintStmt(k)
LastPrint(k) == Len(prog) > Len(SetupProgram) /\ prog[Len(prog)] = PrintStmt(k)

\* what a run of the program prog writes when its objects are placed at base:
\* the statements executed so far are a prefix of the top-level Compound
OutputOfRun(base) ==
    ExecuteStatements(prog, 1, [clo |-> EmptyMap, heap |-> EmptyMap, trace |-> <<>>,
                                depth |-> 0, out |-> "", base |-> base]).out

\* C11: two runs of the same program write the same text, byte for byte,
\* also when the program prints an instance of a class without __str__:
\* the text this run has written is the text the run at every other
\* placement of the objects writes for the same statements.
C11_Determinism ==
    status = "running" => \A base \in AddrBases : OutputOfRun(base) = output


\* the step executes a print statement
PrintStep == \E k \in PrintStmts : prog' = Append(prog, PrintStmt(k))

\* C12: a Print one of whose arguments raises an error writes nothing to the
\* output stream: no text of the earlier arguments, no separator, no newline.
C12_FailedPrintWritesNothing ==
    [][PrintStep /\ last'.sig = "error" => output' = output]_vars

\* the text TestSimplePrints expects of a print statement, and the like
Expected(k) ==
    CASE k = 1 -> "57\n"
      [] k = 2 -> "10 24 -8\n"
      [] k = 3 -> "hello\n"
      [] k = 4 -> "True False\n"
      [] k = 5 -> "\n"
      [] k = 6 -> "None\n"
      [] OTHER -> "None Class Counter (1; 2)\n"

SimplePrints == {1, 2, 3, 4, 5, 6, 10}

\* C13: Print writes the renderings of its arguments in argument order,
\* separated by one space, and then one newline; an empty holder is written
\* as None, a Bool as True or False; without arguments it writes the newline
\* alone.
C13_PrintFormat ==
    [][\A k \in SimplePrints :
          prog' = Append(prog, PrintStmt(k)) => output' = output \o Expected(k)]_vars

\* "print" and then "print True, False" have been executed
C13_Witness ==
    /\ Len(prog) = Len(SetupProgram) + 2
    /\ prog[Len(prog) - 1] = PrintStmt(5)
    /\ LastPrint(4)
    /\ output = "\nTrue False\n"

\* C14: the text of each argument of a Print is produced when that argument
\* has been evaluated and before the later ones are: "print program_name,
\* origin, far_far_away, origin.SetX(1)" writes origin with the x it had
\* before the statement, though SetX(1) has changed it when the statement ends.
C14_ArgumentPrintedWhenEvaluated ==
    [][prog' = Append(prog, PrintStmt(7)) =>
          /\ output' = output \o "Classes test (" \o ToString(heap[closure["origin"].n].fields["x"].n)
                                \o "; 0) (10000; 50000) None\n"
          /\ heap'[closure["origin"].n].fields["x"] = NumberV(1)]_vars

\* the statement has been executed on the origin (0; 0)
C14_Witness ==
    /\ LastPrint(7)
    /\ output = "Classes test (0; 0) (10000; 50000) None\n"
    /\ heap[closure["origin"].n].fields["x"] = NumberV(1)

(***************************************************************************)
(* Claims about SpecValue.  One expression is evaluated after the setup    *)
(* program; it is the last element of prog, and last holds its outcome.    *)
(***************************************************************************)
\* the expression node has been evaluated
Evaluated(node) == Len(prog) = Len(SetupProgram) + 1 /\ prog[Len(prog)] = node

\* the value the name a was bound to by the setup program
ValueOf(a) == closure[a]

Primitive == {"Number", "String", "Bool"}

\* the instances of Point and Loose: their classes declare __eq__ and __lt__ with one parameter
Comparable(v) == v.kind = "Instance" /\ heap[v.n].cls \in {"Point", "Loose"}

\* the calls of methods made while the expression was evaluated
Calls == { i \in 1..Len(Trace) : Trace[i].ev = "call" }

\* the method was called on the instance v, and no other method on any instance
DelegatedTo(v, method) ==
    /\ Calls # {}
    /\ \A i \in Calls : Trace[i].id = v.n /\ Trace[i].val = StringV(method)

\* what the claim says of Equal(l, r)
EqualOutcome(l, r) ==
    CASE l.kind = "None" /\ r.kind = "None" ->
            last.sig = "ok" /\ last.val = BoolV(TRUE) /\ Calls = {}
      [] l.kind \in Primitive /\ r.kind = l.kind ->
            last.sig = "ok" /\ last.val = BoolV(l = r) /\ Calls = {}
      [] Comparable(l) ->
            /\ DelegatedTo(l, "__eq__")
            /\ heap[l.n].cls = "Point" /\ Comparable(r) /\ heap[r.n].cls = "Point" =>
                  /\ last.sig = "ok"
                  /\ last.val = BoolV(heap[l.n].fields["x"] = heap[r.n].fields["x"])
      [] OTHER ->
            /\ last.sig = "error"
            /\ last.msg = "Cannot compare objects for equality"
            /\ Calls = {}

Here == [clo |-> closure, heap |-> heap, trace |-> <<>>, depth |-> 0, out |-> output, base |-> addr_base]

\* the primitives on the operands a and b
EqualOf(a, b) == Equal(ValueOf(a), ValueOf(b), Here)

LessOf(a, b) == Less(ValueOf(a), ValueOf(b), Here)

\* what the claim says of the comparison cmp, eq and lt being what Equal and Less return
Derived(cmp, eq, lt) ==
    CASE cmp = "NotEqual" -> ~eq
      [] cmp = "Greater" -> ~lt /\ ~eq
      [] cmp = "LessOrEqual" -> lt \/ eq
      [] cmp = "GreaterOrEqual" -> ~lt
      [] cmp = "Equal" -> eq
      [] OTHER -> lt

\* C16: on every pair of operands for which Less and Equal return without
\* error, NotEqual = !Equal, Greater = !Less && !Equal, LessOrEqual = Less ||
\* Equal and GreaterOrEqual = !Less; on instances the comparisons call no
\* method but __lt__ and __eq__ of the left operand.
C16_DerivedComparisons ==
    \A cmp \in Comparators : \A a \in Operands : \A b \in Operands :
        /\ Evaluated(Comparison(cmp, Var(<<a>>), Var(<<b>>)))
        /\ EqualOf(a, b).sig = "ok"
        /\ LessOf(a, b).sig = "ok"
        => /\ last.sig = "ok"
           /\ last.val = BoolV(Derived(cmp, EqualOf(a, b).val.b, LessOf(a, b).val.b))
           /\ \A i \in Calls : /\ Trace[i].id = ValueOf(a).n
                                /\ Trace[i].val \in {StringV("__lt__"), StringV("__eq__")}
           /\ ValueOf(a).kind = "Instance" => Calls # {}

\* q > p has been evaluated by q.__lt__(p) and then q.__eq__(p), Point(2, 2) against Point(1, 2)
C16_Witness ==
    /\ Evaluated(Comparison("Greater", Var(<<"q">>), Var(<<"p">>)))
    /\ last.sig = "ok" /\ last.val = BoolV(TRUE)
    /\ \E i \in Calls : \E j \in Calls :
          i < j /\ Trace[i].val = StringV("__lt__") /\ Trace[j].val = StringV("__eq__")

\* what the claim says of IsTrue(v)
Truthy(v) ==
    \/ v.kind = "Bool" /\ v.b
    \/ v.kind = "Number" /\ v.n # 0
    \/ v.kind = "String" /\ v.s # ""

\* "if a: t = 1 else: t = 0"
IfOn(a) == IfElse(Var(<<a>>), Assign("t", Const(NumberV(1))), Assign("t", Const(NumberV(0))))

\* C17: IsTrue(v) is the value of a Bool v, v != 0 for a Number, "v is not
\* empty" for a String, and false for every other value: None, a Class, any
\* instance.  IfElse takes the branch IsTrue chooses.
C17_IsTrue ==
    \A a \in Operands :
        Evaluated(IfOn(a)) =>
            /\ last.sig = "ok"
            /\ closure["t"] = IF Truthy(ValueOf(a)) THEN NumberV(1) ELSE NumberV(0)
            /\ ValueOf(a).kind \in {"None", "Class", "Instance"} => closure["t"] = NumberV(0)

\* "if p:" has taken the else branch, p being an instance of Point
C17_Witness ==
    /\ Evaluated(IfOn("p"))
    /\ ValueOf("p").kind = "Instance"
    /\ closure["t"] = NumberV(0)

\* the text the claim expects of str(a) for the values of the setup program
TextOf(a) ==
    CASE a = "vn" -> "None"
      [] a = "v0" -> "0"
      [] a = "v1" -> "1"
      [] a = "ve" -> ""
      [] a = "va" -> "a"
      [] a = "vb" -> "b"
      [] a = "vt" -> "True"
      [] a = "vf" -> "False"
      [] a = "Counter" -> "Class Counter"
      [] a = "p" -> "(1; 2)"
      [] a = "q" -> "(2; 2)"
      [] OTHER -> AddressText(addr_base, ValueOf(a).n)

\* C18: Stringify(Stringify(x)) is a String with the text of Stringify(x), for
\* None, Number, String, Bool, Class and instances; Stringify(None) is "None".
C18_StringifyIdempotent ==
    \A a \in Operands :
        /\ Evaluated(Stringify(Var(<<a>>))) =>
              last.sig = "ok" /\ last.val = StringV(TextOf(a))
        /\ Evaluated(Stringify(Stringify(Var(<<a>>)))) =>
              last.sig = "ok" /\ last.val = StringV(TextOf(a))

\* str(str(p)) has been evaluated, p being Point(1, 2) with its __str__
C18_Witness ==
    /\ Evaluated(Stringify(Stringify(Var(<<"p">>))))
    /\ DelegatedTo(ValueOf("p"), "__str__")
    /\ last.val = StringV("(1; 2)")

\* C19: Not(b) is Bool(!IsTrue(b)) and Not(Not(b)) is Bool(IsTrue(b)), for every value b.
C19_NotNot ==
    \A a \in Operands :
        /\ Evaluated(Not(Var(<<a>>))) =>
              last.sig = "ok" /\ last.val = BoolV(~Truthy(ValueOf(a)))
        /\ Evaluated(Not(Not(Var(<<a>>)))) =>
              last.sig = "ok" /\ last.val = BoolV(Truthy(ValueOf(a)))

\* not not 1 has been evaluated, and is True
C19_Witness ==
    /\ Evaluated(Not(Not(Var(<<"v1">>))))
    /\ last.val = BoolV(TRUE)

(***************************************************************************)
(* Claims about SpecLex (continued).                                       *)
(***************************************************************************)
\* the input opens a string literal with its first character and holds no
\* other quote: the literal is not closed before a line break or the end
UnclosedLiteral ==
    /\ input # <<>>
    /\ input[1] = "\""
    /\ \A i \in 2..Len(input) : input[i] # "\""

\* C20: a string literal not closed by its quote before a raw newline, a
\* carriage return or the end of the input makes the lexer fail with an
\* error: the lexer does not end normally, and emits no String token for it.
C20_UnterminatedString ==
    UnclosedLiteral =>
        /\ lexPc # "done"
        /\ \A i \in 1..Len(tokens) : tokens[i].type # "String"

\* C21: when the lexer succeeds the token sequence holds exactly one Eof, as
\* its last element, and the token before it is a Newline or a Dedent: a
\* Newline is put before the Eof when the last token of the input is neither.
\* Before the end no Eof is in the sequence.
C21_EofAtEnd ==
    /\ lexPc # "done" => CountOf("Eof", Len(tokens)) = 0
    /\ lexPc = "done" =>
          /\ tokens # <<>>
          /\ tokens[Len(tokens)].type = "Eof"
          /\ CountOf("Eof", Len(tokens)) = 1
          /\ Len(tokens) > 1 => tokens[Len(tokens) - 1].type \in {"Newline", "Dedent"}

\* the input "a": its Id is followed by the Newline put in and the Eof
C21_Witness ==
    /\ input = <<"a">>
    /\ lexPc = "done"
    /\ tokens = <<IdTok(<<"a">>), Tok("Newline"), Tok("Eof")>>

\* ParseNewLine is about to read a line break
AtLineBreak ==
    /\ lexPc = "ParseNewLine"
    /\ stream.pos < Len(input)
    /\ input[stream.pos + 1] = "\n"

LastType == IF tokens = <<>> THEN "" ELSE tokens[Len(tokens)].type

\* the step appended a Newline token right after the tokens there were
NewlineEmitted == Len(tokens') > Len(tokens) /\ tokens'[Len(tokens) + 1].type = "Newline"

NoNewlineAdded ==
    \A i \in (Len(tokens) + 1)..Len(tokens') : tokens'[i].type # "Newline"

NoTwoNewlines ==
    \A i \in 1..(Len(tokens) - 1) :
        ~(tokens[i].type = "Newline" /\ tokens[i + 1].type = "Newline")

\* C25 as stated: on each newline character read outside a string literal the
\* lexer emits a Newline token unless the previously emitted token is already
\* a Newline, and so the token sequence never holds two consecutive Newlines.
C25_NewlineOnEachLineBreak ==
    [][/\ AtLineBreak /\ LastType # "Newline" => NewlineEmitted
       /\ AtLineBreak /\ LastType = "Newline" => NoNewlineAdded
       /\ NoTwoNewlines']_vars

\* C25 amended: on each newline character read outside a string literal the
\* lexer emits a Newline token unless no token has been emitted yet or the
\* previously emitted token is already a Newline; the token sequence never
\* holds two consecutive Newlines.
C25_NewlineAfterAToken ==
    [][/\ AtLineBreak /\ LastType \notin {"", "Newline"} => NewlineEmitted
       /\ AtLineBreak /\ LastType \in {"", "Newline"} => NoNewlineAdded
       /\ NoTwoNewlines']_vars

\* the lines "a", "" and "a": one Newline between the two Ids
C25_Witness ==
    /\ input = <<"a", "\n", "\n", "a", "\n">>
    /\ lexPc = "done"
    /\ tokens = <<IdTok(<<"a">>), Tok("Newline"), IdTok(<<"a">>), Tok("Newline"), Tok("Eof")>>

RECURSIVE LeadingSpaces(_)
\* the number of spaces of the input from position p + 1 on
LeadingSpaces(p) ==
    IF p < Len(input) /\ input[p + 1] = " " THEN 1 + LeadingSpaces(p + 1) ELSE 0

\* the character at position p of the input, if there is one
CharAt(p) == IF p <= Len(input) THEN input[p] ELSE EOFChar

IsIndentOrDedent(token) == token.type \in {"Indent", "Dedent"}

\* the Indent and Dedent tokens the step appended
IndentsEmitted ==
    SelectSeq(SubSeq(tokens', Len(tokens) + 1, Len(tokens')), IsIndentOrDedent)

\* C24: after each newline, with s leading spaces on the next line and
\* tracked level t: if the next non-space character is a newline or # the
\* lexer emits no Indent or Dedent and leaves t unchanged; otherwise it emits
\* exactly |(s - t) / 2| tokens (the integer quotient), all Indent when s > t
\* and all Dedent when s < t, and sets the tracked level to s.
C24_IndentationStep ==
    [][AtLineBreak =>
         LET s == LeadingSpaces(stream.pos + 1)
             t == begin_spaces_count_
         IN IF CharAt(stream.pos + 2 + s) \in {"\n", "#"}
            THEN /\ IndentsEmitted = <<>>
                 /\ begin_spaces_count_' = t
            ELSE /\ Len(IndentsEmitted) = Abs(TruncDiv(s - t, 2))
                 /\ s > t => \A i \in 1..Len(IndentsEmitted) : IndentsEmitted[i].type = "Indent"
                 /\ s < t => \A i \in 1..Len(IndentsEmitted) : IndentsEmitted[i].type = "Dedent"
                 /\ begin_spaces_count_' = s]_vars

\* a line indented by two spaces, after a blank line of one space, between
\* two lines that are not indented: one Indent, then one Dedent
C24_Witness ==
    /\ input = <<"a", "\n", " ", "\n", " ", " ", "a", "\n">>
    /\ lexPc = "done"
    /\ tokens = <<IdTok(<<"a">>), Tok("Newline"), Tok("Indent"), IdTok(<<"a">>),
                  Tok("Newline"), Tok("Dedent"), Tok("Eof")>>

\* C23: a quote character that starts a lexeme always begins a string
\* literal, whatever token was emitted just before it (an identifier, a
\* two-character operator such as the == of x=="a"): no Char token ever
\* holds a quote character.
C23_QuoteBeginsString ==
    \A i \in 1..Len(tokens) :
        tokens[i].type = "Char" => tokens[i].value \notin {<<"\"">>, <<"'">>}

\* C22: in a constructed Lexer the cursor is always on a token of the buffer,
\* whatever calls of NextToken were made.  A NextToken made before the last
\* token moves the cursor one position on and returns the token CurrentToken
\* then returns; a NextToken made on the last token, the Eof, returns Eof and
\* leaves the cursor where it is.
C22_TokenCursor ==
    [][/\ lexPc' = "done" => tokens_iterator_' \in 1..Len(tokens')
       /\ lexPc = "done" =>
            IF tokens_iterator_ < Len(tokens)
            THEN /\ tokens_iterator_' = tokens_iterator_ + 1
                 /\ returned' = CurrentToken'
            ELSE /\ CurrentToken.type = "Eof"
                 /\ returned'.type = "Eof"
                 /\ tokens_iterator_' = tokens_iterator_
                 /\ CurrentToken' = CurrentToken]_vars

\* the input "a": two calls of NextToken have moved the cursor from the Id
\* over the Newline to the Eof
C22_Witness ==
    /\ input = <<"a">>
    /\ lexPc = "done"
    /\ tokens_iterator_ = 3
    /\ CurrentToken = Tok("Eof")
    /\ returned = Tok("Eof")

\* where the method bodies called by the expression itself ended by returning
MethodReturns == { i \in 1..Len(Trace) : Trace[i].ev \in {"catch", "body_end"} /\ Trace[i].depth = 1 }

\* the value the method called last by the expression returned
MethodResult == Trace[CHOOSE i \in MethodReturns : \A j \in MethodReturns : j <= i].val

\* C29: when lhs is an instance of a class with __eq__ (__lt__) of one
\* parameter, Equal (Less) returns what lhs.__eq__(rhs) (lhs.__lt__(rhs))
\* returned, converted to Bool, whatever value that is: a Bool, a value that
\* is not a Bool, None.
C29_ComparisonMethodResult ==
    \A a \in Operands : \A b \in Operands : \A cmp \in {"Equal", "Less"} :
        /\ Evaluated(Comparison(cmp, Var(<<a>>), Var(<<b>>)))
        /\ Comparable(ValueOf(a))
        /\ MethodReturns # {}
        => /\ last.sig = "ok"
           /\ last.val = BoolV(IsTrue(MethodResult))

(***************************************************************************)
(* Claims about SpecCall.  The statement examined is the last element of   *)
(* prog, and last holds its outcome.                                       *)
(***************************************************************************)
\* the statement node has been executed after the setup program
Examined(node) == Len(prog) > Len(SetupProgram) /\ prog[Len(prog)] = node

RECURSIVE ScopeAt(_, _)
\* the scope the k-th name of the path is looked up in: the program's scope
\* for the first, the fields of the instance the name before it gave for the others
ScopeAt(ids, k) ==
    IF k = 1 THEN closure ELSE heap[ScopeAt(ids, k - 1)[ids[k - 1]].n].fields

RECURSIVE Walked(_, _)
\* the names before the k-th were all found and all gave instances
Walked(ids, k) ==
    \/ k = 1
    \/ /\ Walked(ids, k - 1)
       /\ ids[k - 1] \in DOMAIN ScopeAt(ids, k - 1)
       /\ ScopeAt(ids, k - 1)[ids[k - 1]].kind = "Instance"

\* what the claim says of the dotted name ids
PathOutcome(ids) ==
    LET Reached == { k \in 1..Len(ids) : Walked(ids, k) }
        Missing(k) == ids[k] \notin DOMAIN ScopeAt(ids, k)
        At(k) == ScopeAt(ids, k)[ids[k]]
    IN /\ (\E k \in Reached : Missing(k)) =>
            last.sig = "error" /\ last.msg = "var is not found"
       /\ \A k \in Reached :
            ~Missing(k) /\ (At(k).kind # "Instance" \/ k = Len(ids)) =>
                last.sig = "ok" /\ last.val = At(k)

\* C26: a dotted name looks up its first name in the scope and each
\* following name in the fields of the instance found so far.  A name
\* missing at any step is a runtime error; the first value that is not an
\* instance ends the walk and is the result, even when names remain; a path
\* of instances gives the last one.
C26_DottedPath ==
    \A ids \in Paths : Examined(Var(ids)) => PathOutcome(ids)

\* after x.f = x, the name x.f.f gives the instance x
C26_Witness ==
    /\ Examined(Var(<<"x", "f", "f">>))
    /\ prog[Len(prog) - 1] = FieldAssign(<<"x">>, "f", Var(<<"x">>))
    /\ last.sig = "ok"
    /\ last.val = InstanceV(201)

\* the method bodies entered while the statement was executed
BodiesEntered == { i \in 1..Len(Trace) : Trace[i].ev = "body_enter" }

\* the names of the scope the i-th event's body was entered with are self,
\* bound to the instance the method was called on, and the formal parameters
FreshScope(i) ==
    /\ i > 1
    /\ Trace[i - 1].ev = "call"
    /\ LET id == Trace[i - 1].id
           m == MethodAt(GetMethod(ClassTable[heap[id].cls], Trace[i - 1].val.s))
           scope == Trace[i].val.clo
       IN /\ DOMAIN scope = {"self"} \cup { m.formal_params[j] : j \in 1..Len(m.formal_params) }
          /\ scope["self"] = InstanceV(id)

\* what the claim says of the state a statement leaves
MethodScope ==
    /\ \A i \in BodiesEntered : FreshScope(i)
    \* peek reads v1, a name of the caller's scope
    /\ Examined(CallStmt(1)) =>
            "v1" \in DOMAIN closure /\ last.sig = "error" /\ last.msg = "var is not found"
    \* shadow(v0) assigns v1 and x, reads v1
    /\ Examined(CallStmt(2)) => last.sig = "ok" /\ last.val = ValueOf("v0")
    \* echo(va, vb)
    /\ Examined(CallStmt(3)) =>
            /\ last.sig = "ok" /\ last.val = ValueOf("vb")
            /\ \E i \in BodiesEntered :
                   Trace[i].val.clo = [n \in {"self", "a", "b"} |->
                                         CASE n = "self" -> InstanceV(ProbeNodeId)
                                           [] n = "a" -> ValueOf("va")
                                           [] OTHER -> ValueOf("vb")]

\* C27: a method body is executed against a fresh scope whose names are
\* exactly self, bound to the receiving instance, and the formal parameters,
\* bound in order to the actual values; the names of the caller's scope are
\* not readable in the method, and the caller's scope is the same before and
\* after the call, whatever plain names the method assigns.
C27_MethodScope ==
    [][/\ MethodScope'
       /\ (prog' # prog /\ prog'[Len(prog')].node = "MethodCall") => closure' = closure]_vars

\* Probe().shadow(v0) has returned 0, the value of its own v1; the program's v1 is 1
C27_Witness ==
    /\ Examined(CallStmt(2))
    /\ last.sig = "ok"
    /\ last.val = NumberV(0)
    /\ ValueOf("v1") = NumberV(1)
    /\ ValueOf("x") = InstanceV(201)

\* what the statement itself did, in order: the instances its NewInstance
\* nodes gave and the methods called, not counting what the methods called did
TopEvents ==
    LET top == SelectSeq(Trace, LAMBDA e : e.ev \in {"new", "call"} /\ e.depth = 0)
    IN [i \in 1..Len(top) |->
          <<top[i].ev, top[i].id, IF top[i].ev = "call" THEN top[i].val.s ELSE "">>]

\* C28: MethodCall evaluates its receiver first, then each argument once from
\* left to right, and only then looks the method up and calls it; NewInstance
\* evaluates each argument once from left to right before __init__ is
\* called; a binary operator evaluates lhs before rhs.
C28_EvaluationOrder ==
    \* Probe().echo(x.inc(), x.add())
    /\ Examined(CallStmt(4)) =>
            TopEvents = << <<"new", ProbeNodeId, "">>, <<"call", 201, "inc">>,
                           <<"call", 201, "add">>, <<"call", ProbeNodeId, "echo">> >>
    \* Point(x.inc(), x.add())
    /\ Examined(CallStmt(5)) =>
            TopEvents = << <<"call", 201, "inc">>, <<"call", 201, "add">>,
                           <<"new", ProbeNodeId + 1, "">>,
                           <<"call", ProbeNodeId + 1, "__init__">> >>
    \* x.inc() + x.add() and x.inc() == x.add()
    /\ Examined(CallStmt(6)) \/ Examined(CallStmt(7)) =>
            TopEvents = << <<"call", 201, "inc">>, <<"call", 201, "add">> >>
    \* each operand was evaluated once: x.value, 0 before, was incremented twice
    /\ (\E k \in 4..7 : Examined(CallStmt(k))) => heap[201].fields["value"] = NumberV(2)

\* Probe().echo(x.inc(), x.add()) has returned what x.add() returned
C28_Witness ==
    /\ Examined(CallStmt(4))
    /\ last.sig = "ok"
    /\ last.val = NoneV
    /\ Len(TopEvents) = 4

\* C30: a MethodCall whose receiver is not a class instance (None, a Number,
\* a String, a Bool, a Class), and a FieldAssignment whose object is such a
\* value, end in a runtime error: the statement throws, no method body is
\* run by the call and no field is written.
C30_NoInstance ==
    \A a \in Operands :
        /\ Examined(MethodCall(Var(<<a>>), "add", <<>>)) /\ ValueOf(a).kind # "Instance" =>
                last.sig = "error" /\ BodiesEntered = {}
        /\ Examined(MethodCall(Var(<<a>>), "add", <<XInc>>)) /\ ValueOf(a).kind # "Instance" =>
                last.sig = "error"
        /\ Examined(FieldAssign(<<a>>, "f", Var(<<"x">>))) /\ ValueOf(a).kind # "Instance" =>
                last.sig = "error"

====
